---- MODULE Spec2Model ----
(***************************************************************************)
(* A model of the Wikipedia ingestion pipeline of nzk0de/language_learning *)
(*                                                                         *)
(*   Spec        WikiCorpusProcessor (scripts/create_wiki_corpus.py): the  *)
(*               sequential orchestrator with its resumable title cache,   *)
(*               run, killed and restarted on the same dump.               *)
(*   SpecFlags   the runs of Spec started with any combination of the     *)
(*               flags --clear-cache and --force-recreate.                 *)
(*   SpecTerm    one invocation of either orchestrator under weak fairness *)
(*               of its steps.                                             *)
(*   SpecSimple  SimpleWikiCorpusProcessor (create_wiki_corpus_simple.py): *)
(*               the batched orchestrator.                                 *)
(*   SpecCache   add_title_to_cache applied to any disjoint cache.         *)
(*   SpecDedup   the two similarity passes applied to any candidate,       *)
(*               in-flight titles, sink titles and threshold.              *)
(*   SpecMono    the reader loop run twice over the same titles, the       *)
(*               second time with a higher threshold.                      *)
(*   SpecIndex   index_article on the sentences of one article: quality    *)
(*               filter, document ids and the bulk commit.                 *)
(*   SpecQuality SentenceQualityChecker applied to sentences, languages    *)
(*               and configurations.                                       *)
(*   SpecChunk   GermanBooksIndexer (index_german_books.py): the chunker   *)
(*               and the annotation of a book chunk by chunk.              *)
(*   SpecReader  the reader loop of both orchestrators, event by event.    *)
(*   SpecPool    process_articles_batch step by step: tasks, pool          *)
(*               shutdown, bulk commit.                                    *)
(*   SpecSched   FeedScheduler (language_app/app/scheduler.py): start and  *)
(*               stop called by coroutines of one asyncio event loop.      *)
(***************************************************************************)
EXTENDS Integers, Sequences, FiniteSets, TLC

VARIABLES
    run,                 \* number of the current process (1 = first invocation)
    pc,                  \* position of the process inside main/process_dump
    dump,                \* the records of the dump file, in stream order
    pos,                 \* records already pulled from the reader in this run
    max_articles,        \* --max-articles
    similarity_threshold,\* --similarity-threshold, in thousandths (800 = 0.8)
    cache_writable,      \* whether open(cache_file, "wb") succeeds at this location
    cache,               \* self.processed_titles_cache
    disk,                \* the cache file processed_titles_<index>.pkl
    page_data,           \* keys of page_data, in insertion order
    existing_titles,     \* snapshot of the sink's titles taken at startup
    sink,                \* titles with at least one sentence document in the index
    stats,               \* self.stats
    save_cache_counter,  \* processed articles since the last periodic save
    calls,               \* this run: dedup passes, annotator calls, bulk writes
    annotated,           \* this run: titles handed to the annotator
    written,             \* this run: titles for which a bulk write was issued
    last,                \* what the last step of process_dump did
    prev,                \* what the previous run left behind
    current_batch,       \* SimpleWikiCorpusProcessor: the open batch of titles
    batch_size,          \* SimpleWikiCorpusProcessor: --batch-size
    es,                  \* the sentence documents of the index, one per _id
    submitted,           \* the documents of the latest helpers.bulk call
    checker_config,      \* self.config of each process's SentenceQualityChecker
    evals,               \* the calls of is_quality_sentence made so far
    text,                \* GermanBooksIndexer: the text of the book file
    chunk_size,          \* chunk_size of process_with_stanza_chunked
    chunks,              \* the list _split_into_smart_chunks returned
    chunk_pos,           \* chunks the loop of lines 296-309 has finished
    all_sentences,       \* all_sentences of process_with_stanza_chunked
    nlp_log,             \* per self.nlp call: the chunk and whether it returned
    book_outcome,        \* how index_book went on after the annotation
    futures,             \* process_articles_batch: the state of each submitted task
    all_documents,       \* process_articles_batch: len(all_documents)
    batch_counts,        \* process_articles_batch: rejected_count, error_count
    reader,              \* which orchestrator's reader loop runs
    items,               \* the elements of the dump below its root
    events,              \* the (event, elem) pairs ET.iterparse yields for them
    ev_pos,              \* events the loop has handled
    in_page,             \* in_page of the reader loop
    page_title,       \* current_title of the reader loop
    page_text,        \* current_text of the reader loop
    emitted,             \* the (title, text) pairs that passed line 599 / 403
    running,             \* FeedScheduler.running
    task,                \* FeedScheduler.task: 0 for None, else the task's number
    tasks,               \* the fetch-loop tasks created so far
    ready,               \* the tasks the event loop will step next, in order
    stops,               \* the calls of stop() in progress, per caller
    start_calls          \* calls of start() made so far

vars == <<run, pc, dump, pos, max_articles, similarity_threshold, cache_writable,
          cache, disk, page_data, existing_titles, sink, stats,
          save_cache_counter, calls, annotated, written, last, prev,
          current_batch, batch_size, es, submitted, checker_config, evals,
          text, chunk_size, chunks, chunk_pos, all_sentences, nlp_log,
          book_outcome, futures, all_documents, batch_counts,
          reader, items, events, ev_pos, in_page, page_title, page_text,
          emitted, running, task, tasks, ready, stops, start_calls>>

\* the fields of FeedScheduler and the tasks of its event loop
sched_vars == <<running, task, tasks, ready, stops, start_calls>>

\* the locals of the reader loop of process_dump
reader_vars == <<reader, items, events, ev_pos, in_page, page_title,
                 page_text, emitted>>

\* the locals of SimpleWikiCorpusProcessor.process_articles_batch
pool_vars == <<futures, all_documents, batch_counts>>

\* the variables of GermanBooksIndexer
chunk_vars == <<text, chunk_size, chunks, chunk_pos, all_sentences, nlp_log,
                book_outcome>>

\* the variables the title-level model of WikiCorpusProcessor does not have
aux_vars == <<current_batch, batch_size, es, submitted, checker_config, evals,
              chunk_vars, pool_vars, reader_vars, sched_vars>>

-----------------------------------------------------------------------------
(* Bounds of the model *)

MaxRuns == 2
MaxTarget == 2
MaxBatch == 2
MaxSentences == 2
MaxInFlight == 2
MonoLen == 3
MaxVersion == 2
MaxEvals == 2
MaxText == 5
MaxChunkSize == 3
MaxItems == 3
MaxStarts == 3
\* the periodic save fires every 50 processed articles in the code
\* (scripts/create_wiki_corpus.py:712); the model scales the period down so
\* that a dump of three records crosses it
SaveEvery == 2

-----------------------------------------------------------------------------
(* Titles are character sequences, so that similarity is computed and not   *)
(* assumed.                                                                 *)

TitleBerlin == <<"B", "e", "r", "l", "i", "n">>
TitleBerlinLower == <<"b", "e", "r", "l", "i", "n">>
TitleMunich == <<"M", "u", "n", "i", "c", "h">>
Titles == {TitleBerlin, TitleBerlinLower, TitleMunich}
NoTitle == <<>>

Thresholds == {800, 900}

\* the dump files of the model: the records with a title and a text, in
\* stream order; a title may occur twice in a dump
Dumps ==
    { <<TitleBerlin, TitleBerlinLower, TitleMunich>>,
      <<TitleBerlin, TitleMunich, TitleBerlin>> }

Max(a, b) == IF a >= b THEN a ELSE b

RECURSIVE LCS(_, _)
\* length of a longest common subsequence: rapidfuzz's Indel distance is
\* len(a) + len(b) - 2 * LCS(a, b)
LCS(a, b) ==
    IF a = <<>> \/ b = <<>> THEN 0
    ELSE IF Head(a) = Head(b) THEN 1 + LCS(Tail(a), Tail(b))
    ELSE Max(LCS(Tail(a), b), LCS(a, Tail(b)))

RECURSIVE casefold(_)
\* str.lower() on the letters of the model's titles
casefold(a) ==
    IF a = <<>> THEN <<>>
    ELSE <<(IF Head(a) = "B" THEN "b" ELSE IF Head(a) = "M" THEN "m" ELSE Head(a))>>
         \o casefold(Tail(a))

\* a comparison that lower-cases both titles first
RatioAtLeast_casefold(a, b, score) ==
    IF Len(a) + Len(b) = 0 THEN 100 >= score
    ELSE 200 * LCS(casefold(a), casefold(b)) >= score * (Len(a) + Len(b))

\* a score that falls when the threshold rises
threshold_score_inverted(thousandths) == 100 - thousandths \div 10

\* the comparison written with > instead of >=
RatioAbove(a, b, score) ==
    IF Len(a) + Len(b) = 0 THEN 100 > score
    ELSE 200 * LCS(a, b) > score * (Len(a) + Len(b))

\* fuzz.ratio(a, b) >= score, for an integer score on the 0..100 scale.
\* fuzz.ratio is 100 * 2 * LCS / (len(a) + len(b)), and 100 for two empty strings.
RatioAtLeast(a, b, score) ==
    IF Len(a) + Len(b) = 0 THEN 100 >= score
    ELSE 200 * LCS(a, b) >= score * (Len(a) + Len(b))

\* int(similarity_threshold * 100), the threshold in thousandths
threshold_score(thousandths) == thousandths \div 10

\* a local pass that compares the title with nothing
check_similar_skipped(title, existing, threshold) ==
    [flag |-> FALSE, match |-> NoTitle]

RECURSIVE check_similar(_, _, _)
\* check_similar(title, existing_titles, threshold): the first title of the
\* iteration whose ratio reaches the threshold
check_similar(title, existing, threshold) ==
    IF existing = <<>> THEN [flag |-> FALSE, match |-> NoTitle]
    ELSE IF RatioAtLeast(title, Head(existing), threshold)
         THEN [flag |-> TRUE, match |-> Head(existing)]
         ELSE check_similar(title, Tail(existing), threshold)

\* a pass against the sink's titles whose except branch always answers False
check_similar_title_exists_swallowed(title, existing, thousandths) ==
    FALSE

\* WikiCorpusProcessor.check_similar_title_exists
check_similar_title_exists(title, existing, thousandths) ==
    \E existing_title \in existing :
        RatioAtLeast(title, existing_title, threshold_score(thousandths))

\* the two similarity passes of process_dump and the branch taken on them:
\* both passes are evaluated, the local one is tested first
dedup_decision(title, in_flight, existing, thousandths) ==
    LET local == check_similar(title, in_flight, threshold_score(thousandths))
        is_similar_existing ==
            check_similar_title_exists(title, existing, thousandths)
    IN  IF local.flag
        THEN [similar |-> TRUE, by |-> "similar_local", match |-> local.match]
        ELSE IF is_similar_existing
        THEN [similar |-> TRUE, by |-> "similar_existing", match |-> NoTitle]
        ELSE [similar |-> FALSE, by |-> "accepted", match |-> NoTitle]

-----------------------------------------------------------------------------
(* The resumable cache *)

Categories == {"indexed", "rejected", "similar", "errors"}
CategoryOrder == <<"indexed", "rejected", "similar", "errors">>

EmptyCache == [c \in Categories |-> {}]

\* a lookup that asks only whether the title was indexed
is_title_already_processed_indexed_only(title, c) ==
    IF title \in c["indexed"]
    THEN [is_processed |-> TRUE, category |-> "indexed"]
    ELSE [is_processed |-> FALSE, category |-> ""]

\* a lookup that lets errored titles be tried again
is_title_already_processed_retrying_errors(title, c) ==
    IF \E k \in {"indexed", "rejected", "similar"} : title \in c[k]
    THEN [is_processed |-> TRUE, category |-> "indexed"]
    ELSE [is_processed |-> FALSE, category |-> ""]

\* is_title_already_processed: the first category, in dict order, holding the title
is_title_already_processed(title, c) ==
    IF \E i \in 1..Len(CategoryOrder) : title \in c[CategoryOrder[i]]
    THEN [is_processed |-> TRUE,
          category |-> CategoryOrder[CHOOSE i \in 1..Len(CategoryOrder) :
                           /\ title \in c[CategoryOrder[i]]
                           /\ \A j \in 1..(i - 1) : title \notin c[CategoryOrder[j]]]]
    ELSE [is_processed |-> FALSE, category |-> ""]

\* add_title_to_cache: no check of the other categories
add_title_to_cache(c, title, category) ==
    IF category \in DOMAIN c
    THEN [c EXCEPT ![category] = @ \cup {title}]
    ELSE c

\* the cache file: absent, a complete pickle of a cache, or a truncated /
\* partially written pickle
DiskAbsent == [kind |-> "absent", blob |-> EmptyCache]
DiskCorrupt == [kind |-> "corrupt", blob |-> EmptyCache]
DiskValid(c) == [kind |-> "valid", blob |-> c]

\* a load that reads the file and drops what it read
load_processed_titles_cache_dropped(c, d) ==
    IF d.kind = "corrupt" THEN EmptyCache ELSE c

\* load_processed_titles_cache, applied to the freshly constructed cache `c`
load_processed_titles_cache(c, d) ==
    IF d.kind = "valid" THEN d.blob
    ELSE IF d.kind = "absent" THEN c
    ELSE EmptyCache

-----------------------------------------------------------------------------
(* SentenceQualityChecker (language_app/app/quality_checker.py).  A string  *)
(* is the sequence of its characters; a character outside ASCII is written  *)
(* by name ("a_uml", "en_dash").  The blank is the only whitespace of the    *)
(* model's alphabet.                                                        *)

UpperAZ ==
    {"A", "B", "C", "D", "E", "F", "G", "H", "I", "J", "K", "L", "M", "N",
     "O", "P", "Q", "R", "S", "T", "U", "V", "W", "X", "Y", "Z"}
LowerAZ ==
    {"a", "b", "c", "d", "e", "f", "g", "h", "i", "j", "k", "l", "m", "n",
     "o", "p", "q", "r", "s", "t", "u", "v", "w", "x", "y", "z"}
UpperUmlaut == {"A_uml", "O_uml", "U_uml"}
LowerUmlaut == {"a_uml", "o_uml", "u_uml", "eszett"}
DigitChars ==
    {"0", "1", "2", "3", "4", "5", "6", "7", "8", "9"}
SpaceChars == {" ", "\n"}
DashChars == {"-", "en_dash", "em_dash"}
BulletChars == {"bullet", "middle_dot", "small_square", "white_square"}
EndingChars == {".", "!", "?", ":", ";"}
\* \w of a str pattern: letters, digits and the underscore
WordChars == UpperAZ \cup LowerAZ \cup UpperUmlaut \cup LowerUmlaut \cup DigitChars \cup {"_"}

\* str.lower() maps UpperOrder[i] to LowerOrder[i] and leaves the rest
UpperOrder ==
    <<"A", "B", "C", "D", "E", "F", "G", "H", "I", "J", "K", "L", "M", "N",
      "O", "P", "Q", "R", "S", "T", "U", "V", "W", "X", "Y", "Z", "A_uml",
      "O_uml", "U_uml">>
LowerOrder ==
    <<"a", "b", "c", "d", "e", "f", "g", "h", "i", "j", "k", "l", "m", "n",
      "o", "p", "q", "r", "s", "t", "u", "v", "w", "x", "y", "z", "a_uml",
      "o_uml", "u_uml">>

lower_char(c) ==
    IF c \in UpperAZ \cup UpperUmlaut
    THEN LowerOrder[CHOOSE i \in 1..Len(UpperOrder) : UpperOrder[i] = c]
    ELSE c

lower(s) == [i \in 1..Len(s) |-> lower_char(s[i])]

RECURSIVE lstrip(_)
lstrip(s) ==
    IF s # <<>> /\ Head(s) \in SpaceChars THEN lstrip(Tail(s)) ELSE s

RECURSIVE rstrip(_)
rstrip(s) ==
    IF s # <<>> /\ s[Len(s)] \in SpaceChars
    THEN rstrip(SubSeq(s, 1, Len(s) - 1))
    ELSE s

strip(s) == rstrip(lstrip(s))

\* len(sentence.split()): the maximal runs of non-blank characters
word_count(s) ==
    Cardinality({i \in 1..Len(s) :
                   s[i] \notin SpaceChars /\ (i = 1 \/ s[i - 1] \in SpaceChars)})

\* `part in s.lower()`
lower_contains(s, part) ==
    \E i \in 1..(Len(s) - Len(part) + 1) :
        \A k \in 1..Len(part) : lower_char(s[i + k - 1]) = part[k]

\* every character from position i on is whitespace
blank_from(s, i) == \A j \in i..Len(s) : s[j] \in SpaceChars

DefaultConfig ==
    [min_length |-> 10, max_length |-> 500, min_words |-> 3, max_words |-> 50,
     max_number_ratio_tenths |-> 3, max_punct_ratio_tenths |-> 2,
     min_caps_ratio_de_tenths |-> 1]

\* _has_incomplete_patterns: re.search of each of the ten patterns
has_incomplete_patterns(sentence) ==
    LET body == strip(sentence)
        left == lstrip(sentence)
    IN  \* ^\s*\d+\.?\s*$
        \/ \E k \in 1..Len(body) :
              /\ \A i \in 1..k : body[i] \in DigitChars
              /\ \/ k = Len(body)
                 \/ (k + 1 = Len(body) /\ body[k + 1] = ".")
        \* ^\s*[A-Z][a-z]*:?\s*$
        \/ /\ body # <<>>
           /\ body[1] \in UpperAZ
           /\ \E k \in 1..Len(body) :
                 /\ \A i \in 2..k : body[i] \in LowerAZ
                 /\ \/ k = Len(body)
                    \/ (k + 1 = Len(body) /\ body[k + 1] = ":")
        \* ^\s*\([^)]*$
        \/ /\ left # <<>>
           /\ left[1] = "("
           /\ \A i \in 2..Len(left) : left[i] # ")"
        \* ^[^)]*\)\s*$
        \/ \E i \in 1..Len(sentence) :
              /\ sentence[i] = ")"
              /\ \A j \in 1..(i - 1) : sentence[j] # ")"
              /\ blank_from(sentence, i + 1)
        \* ^\s*[-en_dash em_dash]\s*
        \/ (left # <<>> /\ left[1] \in DashChars)
        \* \s+[-en_dash em_dash]\s*$
        \/ \E i \in 2..Len(sentence) :
              /\ sentence[i] \in DashChars
              /\ sentence[i - 1] \in SpaceChars
              /\ blank_from(sentence, i + 1)
        \* ^\s*\*
        \/ (left # <<>> /\ left[1] = "*")
        \* ^\s*[bullets]\s*
        \/ (left # <<>> /\ left[1] \in BulletChars)
        \* \.{3,}
        \/ \E i \in 1..(Len(sentence) - 2) :
              sentence[i] = "." /\ sentence[i + 1] = "." /\ sentence[i + 2] = "."
        \* ^[^A-Z A_uml O_uml U_uml]
        \/ (sentence # <<>> /\ sentence[1] \notin UpperAZ \cup UpperUmlaut)

\* len(re.findall(r"\d+", sentence)): the maximal runs of digits
number_count(sentence) ==
    Cardinality({i \in 1..Len(sentence) :
                   /\ sentence[i] \in DigitChars
                   /\ (i = 1 \/ sentence[i - 1] \notin DigitChars)})

\* _has_too_many_numbers: number_count > len(words) * max_number_ratio
has_too_many_numbers(sentence, n_words, config) ==
    10 * number_count(sentence) > n_words * config.max_number_ratio_tenths

\* _has_excessive_punctuation: the characters matching [^\w\s]
has_excessive_punctuation(sentence, config) ==
    LET punct_count ==
            Cardinality({i \in 1..Len(sentence) :
                           sentence[i] \notin WordChars \cup SpaceChars})
    IN  10 * punct_count > Len(sentence) * config.max_punct_ratio_tenths

\* str.isupper() and str.islower()
isupper(s) ==
    /\ \E i \in 1..Len(s) : s[i] \in UpperAZ \cup UpperUmlaut
    /\ \A i \in 1..Len(s) : s[i] \notin LowerAZ \cup LowerUmlaut

islower(s) ==
    /\ \E i \in 1..Len(s) : s[i] \in LowerAZ \cup LowerUmlaut
    /\ \A i \in 1..Len(s) : s[i] \notin UpperAZ \cup UpperUmlaut

\* _passes_language_checks: for "de", the matches of \b[A-Z..][a-z..]+ must
\* be at least min_caps_ratio_de of the words
passes_language_checks(sentence, n_words, lang, config) ==
    LET caps_count ==
            Cardinality({i \in 1..(Len(sentence) - 1) :
                           /\ sentence[i] \in UpperAZ \cup UpperUmlaut
                           /\ sentence[i + 1] \in LowerAZ \cup LowerUmlaut
                           /\ (i = 1 \/ sentence[i - 1] \notin WordChars)})
    IN  lang = "de" => ~(10 * caps_count < n_words * config.min_caps_ratio_de_tenths)

\* the list wiki_artifacts of _has_wiki_artifacts
WikiArtifacts ==
    { <<"s", "i", "e", "h", "e", " ", "a", "u", "c", "h">>,
      <<"s", "e", "e", " ", "a", "l", "s", "o">>,
      <<"c", "a", "t", "e", "g", "o", "r", "y", ":">>,
      <<"k", "a", "t", "e", "g", "o", "r", "i", "e", ":">>,
      <<"t", "h", "u", "m", "b", "|">>,
      <<"p", "x", "|">>,
      <<"l", "e", "f", "t", "|">>,
      <<"r", "i", "g", "h", "t", "|">>,
      <<"c", "e", "n", "t", "e", "r", "|">>,
      <<"{", "{">>,
      <<"}", "}">>,
      <<"[", "[">>,
      <<"]", "]">>,
      <<"f", "i", "l", "e", ":">>,
      <<"i", "m", "a", "g", "e", ":">>,
      <<"d", "a", "t", "e", "i", ":">>,
      <<"b", "i", "l", "d", ":">> }

\* _has_wiki_artifacts
has_wiki_artifacts(sentence) ==
    \E artifact \in WikiArtifacts : lower_contains(sentence, artifact)

\* a predicate with only the length and word count checks
is_quality_sentence_length_only(raw, lang, config) ==
    LET sentence == strip(raw)
    IN  /\ sentence # <<>>
        /\ Len(sentence) >= config.min_length
        /\ word_count(sentence) >= config.min_words

\* is_quality_sentence(sentence, lang) of a checker whose config is `config`
is_quality_sentence(raw, lang, config) ==
    LET sentence == strip(raw)
        n_words == word_count(sentence)
    IN  /\ sentence # <<>>
        /\ ~(Len(sentence) < config.min_length \/ Len(sentence) > config.max_length)
        /\ ~(n_words < config.min_words \/ n_words > config.max_words)
        /\ sentence[Len(sentence)] \in EndingChars
        /\ ~has_incomplete_patterns(sentence)
        /\ ~has_too_many_numbers(sentence, n_words, config)
        /\ ~has_excessive_punctuation(sentence, config)
        /\ ~(isupper(sentence) \/ islower(sentence))
        /\ passes_language_checks(sentence, n_words, lang, config)
        /\ ~has_wiki_artifacts(sentence)

\* a report whose conjunction leaves the language check out
get_quality_report_without_language(raw, lang, config) ==
    LET sentence == strip(raw)
        n_words == word_count(sentence)
        checks ==
            [length_check |->
                 config.min_length <= Len(sentence) /\ Len(sentence) <= config.max_length,
             word_count_check |->
                 config.min_words <= n_words /\ n_words <= config.max_words,
             ending_check |-> sentence[Len(sentence)] \in EndingChars,
             incomplete_patterns_check |-> ~has_incomplete_patterns(sentence),
             numbers_check |-> ~has_too_many_numbers(sentence, n_words, config),
             punctuation_check |-> ~has_excessive_punctuation(sentence, config),
             capitalization_check |-> ~(isupper(sentence) \/ islower(sentence)),
             wiki_artifacts_check |-> ~has_wiki_artifacts(sentence)]
    IN  IF sentence = <<>>
        THEN [passes |-> FALSE, reason |-> "Empty or whitespace-only sentence"]
        ELSE [passes |-> \A check \in DOMAIN checks : checks[check],
              failed_checks |-> { check \in DOMAIN checks : ~checks[check] },
              sentence_length |-> Len(sentence),
              word_count |-> n_words]

\* get_quality_report(sentence, lang) of a checker whose config is `config`:
\* the nine checks are all evaluated, passes is all(checks.values())
get_quality_report(raw, lang, config) ==
    LET sentence == strip(raw)
        n_words == word_count(sentence)
        checks ==
            [length_check |->
                 config.min_length <= Len(sentence) /\ Len(sentence) <= config.max_length,
             word_count_check |->
                 config.min_words <= n_words /\ n_words <= config.max_words,
             ending_check |-> sentence[Len(sentence)] \in EndingChars,
             incomplete_patterns_check |-> ~has_incomplete_patterns(sentence),
             numbers_check |-> ~has_too_many_numbers(sentence, n_words, config),
             punctuation_check |-> ~has_excessive_punctuation(sentence, config),
             capitalization_check |-> ~(isupper(sentence) \/ islower(sentence)),
             language_check |-> passes_language_checks(sentence, n_words, lang, config),
             wiki_artifacts_check |-> ~has_wiki_artifacts(sentence)]
    IN  IF sentence = <<>>
        THEN [passes |-> FALSE, reason |-> "Empty or whitespace-only sentence"]
        ELSE [passes |-> \A check \in DOMAIN checks : checks[check],
              failed_checks |-> { check \in DOMAIN checks : ~checks[check] },
              sentence_length |-> Len(sentence),
              word_count |-> n_words]

\* the processes that hold a SentenceQualityChecker: the orchestrator (the
\* module's global instance and self.quality_checker) and a pool worker
Processes == {"main", "worker"}

\* the coroutines that call FeedScheduler.stop
Callers == {"lifespan", "handler"}

\* a caller that is not inside stop()
NoStop == [pc |-> "idle", awaiting |-> 0, restarted |-> FALSE]

\* FeedScheduler.__init__ on an event loop without fetch-loop tasks
SchedIdle ==
    /\ running = FALSE
    /\ task = 0
    /\ tasks = <<>>
    /\ ready = <<>>
    /\ stops = [c \in Callers |-> NoStop]
    /\ start_calls = 0

\* the sentence-level variables before any bulk call and any evaluation
IndexIdle ==
    /\ SchedIdle
    /\ reader = "sequential"
    /\ items = <<>>
    /\ events = <<>>
    /\ ev_pos = 0
    /\ in_page = FALSE
    /\ page_title = "None"
    /\ page_text = "None"
    /\ emitted = <<>>
    /\ futures = <<>>
    /\ all_documents = 0
    /\ batch_counts = [rejected_count |-> 0, error_count |-> 0]
    /\ text = <<>>
    /\ chunk_size = 1
    /\ chunks = <<>>
    /\ chunk_pos = 0
    /\ all_sentences = <<>>
    /\ nlp_log = <<>>
    /\ book_outcome = "none"
    /\ es = {}
    /\ submitted = <<>>
    /\ checker_config = [p \in Processes |-> DefaultConfig]
    /\ evals = <<>>

(* Sentences of the model *)

\* "Berlin ist die Hauptstadt von Deutschland."
SentCapital ==
    <<"B", "e", "r", "l", "i", "n", " ", "i", "s", "t", " ", "d", "i", "e",
      " ", "H", "a", "u", "p", "t", "s", "t", "a", "d", "t", " ", "v", "o",
      "n", " ", "D", "e", "u", "t", "s", "c", "h", "l", "a", "n", "d", ".">>
\* "Siehe auch Berlin"
SentSeeAlso ==
    <<"S", "i", "e", "h", "e", " ", "a", "u", "c", "h", " ", "B", "e", "r",
      "l", "i", "n">>
\* "Siehe auch Berlin."
SentSeeAlsoDot ==
    <<"S", "i", "e", "h", "e", " ", "a", "u", "c", "h", " ", "B", "e", "r",
      "l", "i", "n", ".">>
\* "berlin ist gross."
SentLower ==
    <<"b", "e", "r", "l", "i", "n", " ", "i", "s", "t", " ", "g", "r", "o",
      "s", "s", ".">>
\* "Kurz."
SentShort ==
    <<"K", "u", "r", "z", ".">>
\* "Im Jahr 1990 gab es 3 und 7."
SentNumbers ==
    <<"I", "m", " ", "J", "a", "h", "r", " ", "1", "9", "9", "0", " ", "g",
      "a", "b", " ", "e", "s", " ", "3", " ", "u", "n", "d", " ", "7", ".">>
\* "Es ist sehr kalt hier und dort, aber nicht immer so gut wie es war."
SentFewNouns ==
    <<"E", "s", " ", "i", "s", "t", " ", "s", "e", "h", "r", " ", "k", "a",
      "l", "t", " ", "h", "i", "e", "r", " ", "u", "n", "d", " ", "d", "o",
      "r", "t", ",", " ", "a", "b", "e", "r", " ", "n", "i", "c", "h", "t",
      " ", "i", "m", "m", "e", "r", " ", "s", "o", " ", "g", "u", "t", " ",
      "w", "i", "e", " ", "e", "s", " ", "w", "a", "r", ".">>
\* "(Das ist ein Satz."
SentParen ==
    <<"(", "D", "a", "s", " ", "i", "s", "t", " ", "e", "i", "n", " ", "S",
      "a", "t", "z", ".">>
\* "BERLIN IST GROSS."
SentUpper ==
    <<"B", "E", "R", "L", "I", "N", " ", "I", "S", "T", " ", "G", "R", "O",
      "S", "S", ".">>
\* "Das ist so... ja genau."
SentEllipsis ==
    <<"D", "a", "s", " ", "i", "s", "t", " ", "s", "o", ".", ".", ".", " ",
      "j", "a", " ", "g", "e", "n", "a", "u", ".">>
\* "A, b; c: d! e? f. g, h; i:"
SentPunct ==
    <<"A", ",", " ", "b", ";", " ", "c", ":", " ", "d", "!", " ", "e", "?",
      " ", "f", ".", " ", "g", ",", " ", "h", ";", " ", "i", ":">>
\* "  Das ist ein Satz.  "
SentPadded ==
    <<" ", " ", "D", "a", "s", " ", "i", "s", "t", " ", "e", "i", "n", " ",
      "S", "a", "t", "z", ".", " ", " ">>
SentEmpty == <<>>

Sentences ==
    {SentCapital, SentSeeAlso, SentSeeAlsoDot, SentLower, SentShort, SentNumbers,
     SentFewNouns, SentParen, SentUpper, SentEllipsis, SentPunct, SentPadded, SentEmpty}

-----------------------------------------------------------------------------
(* What the annotator, the quality filter and the sink do with one article  *)
(* is the environment's choice.                                             *)

Environments ==
    { [annot |-> "ok",    quality |-> TRUE,  bulk |-> "ok"],
      [annot |-> "ok",    quality |-> FALSE, bulk |-> "ok"],
      [annot |-> "raise", quality |-> FALSE, bulk |-> "ok"],
      [annot |-> "ok",    quality |-> TRUE,  bulk |-> "raise"],
      [annot |-> "ok",    quality |-> TRUE,  bulk |-> "raise_partial"] }

\* process_with_stanza: an annotator exception is caught and yields an empty doc_dict
process_with_stanza(env) ==
    IF env.annot = "raise" THEN "empty" ELSE "sentences"

\* index_article: documents are the sentences passing the quality filter;
\* helpers.bulk raises when the connection or any item fails
index_article(doc_dict, env) ==
    LET documents == doc_dict = "sentences" /\ env.quality
    IN  IF ~documents
        THEN [success |-> FALSE, reason |-> "rejected", bulk |-> FALSE, stored |-> FALSE]
        ELSE IF env.bulk = "ok"
        THEN [success |-> TRUE, reason |-> "indexed", bulk |-> TRUE, stored |-> TRUE]
        ELSE [success |-> FALSE, reason |-> "error", bulk |-> TRUE,
              stored |-> env.bulk = "raise_partial"]

ZeroStats ==
    [articles_processed |-> 0, articles_indexed |-> 0, articles_skipped |-> 0,
     articles_rejected |-> 0, cache_hits |-> 0, errors |-> 0]

ZeroCalls == [dedup |-> 0, annot |-> 0, bulk |-> 0]

\* a bulk commit: documents submitted, items the sink failed, whether the sink
\* was reachable, and the pair index_documents_batch returned
NoCommit == [submitted |-> 0, failed |-> 0, connected |-> TRUE,
             success_count |-> 0, error_count |-> 0]

NoLast == [op |-> "none", title |-> NoTitle, load |-> "none", loaded |-> {},
           end |-> "none", final_save |-> "none", commit |-> NoCommit,
           fault |-> "none", filtered |-> 0, startup |-> "none",
           exit_status |-> -1]

NoPrev == [ended |-> "none", indexed |-> {}, final_save |-> "none", n_indexed |-> 0,
           annotated |-> {}]

\* the cache category and the counter that follow index_article's answer
\* an outcome recording that has no cache set for a title whose work failed
outcome_category_dropping_errors(res) ==
    IF res.success /\ res.reason = "indexed" THEN "indexed"
    ELSE IF res.reason = "rejected" THEN "rejected"
    ELSE "none"

outcome_category(res) ==
    IF res.success /\ res.reason = "indexed" THEN "indexed"
    ELSE IF res.reason = "rejected" THEN "rejected"
    ELSE "errors"

\* a counter choice that counts a title whose commit failed as skipped
outcome_counter_skipping_errors(res) ==
    IF res.success /\ res.reason = "indexed" THEN "articles_indexed"
    ELSE IF res.reason = "rejected" THEN "articles_rejected"
    ELSE "articles_skipped"

\* the counter incremented at lines 665-688
outcome_counter(res) ==
    IF res.success /\ res.reason = "indexed" THEN "articles_indexed"
    ELSE IF res.reason = "rejected" THEN "articles_rejected"
    ELSE "errors"

-----------------------------------------------------------------------------
(* Spec: WikiCorpusProcessor *)

Init ==
    /\ IndexIdle
    /\ run = 1
    /\ pc = "main"
    /\ dump \in Dumps
    /\ pos = 0
    /\ max_articles \in 1..MaxTarget
    /\ similarity_threshold \in Thresholds
    /\ cache_writable \in BOOLEAN
    /\ cache = EmptyCache
    /\ disk = DiskAbsent
    /\ page_data = <<>>
    /\ existing_titles = {}
    /\ sink = {}
    /\ stats = ZeroStats
    /\ save_cache_counter = 0
    /\ calls = ZeroCalls
    /\ annotated = {}
    /\ written = {}
    /\ last = NoLast
    /\ prev = NoPrev
    /\ current_batch = <<>>
    /\ batch_size = 1

\* main up to the reader loop's preparations: initialize_elasticsearch and
\* initialize_stanza each return False on failure and main returns 1;
\* process_dump returns the zero statistics at once when the dump file is
\* missing, and main returns 1 for them
Startup ==
    /\ pc = "main"
    /\ \E sink_ok \in BOOLEAN, annotator_ok \in BOOLEAN, dump_exists \in BOOLEAN :
          LET startup == IF ~sink_ok THEN "no_sink"
                         ELSE IF ~annotator_ok THEN "no_annotator"
                         ELSE IF ~dump_exists THEN "no_dump"
                         ELSE "ok"
          IN  /\ pc' = IF startup = "ok" THEN "start" ELSE "exited"
              /\ last' = [last EXCEPT
                            !.startup = startup,
                            !.exit_status = IF startup = "ok" THEN -1 ELSE 1]
    /\ UNCHANGED <<run, dump, pos, max_articles, similarity_threshold,
                   cache_writable, cache, disk, page_data, existing_titles, sink,
                   stats, save_cache_counter, calls, annotated, written, prev,
                   aux_vars>>

\* an exit status that also fails a run with errored titles
Exit_failing_on_errors ==
    /\ pc = "done"
    /\ pc' = "exited"
    /\ last' = [last EXCEPT
                  !.exit_status = IF stats.articles_indexed > 0 /\ stats.errors = 0
                                  THEN 0 ELSE 1]
    /\ UNCHANGED <<run, dump, pos, max_articles, similarity_threshold,
                   cache_writable, cache, disk, page_data, existing_titles, sink,
                   stats, save_cache_counter, calls, annotated, written, prev,
                   aux_vars>>

\* main after process_dump returned, and exit(main()): lines 847-857
Exit ==
    /\ pc = "done"
    /\ pc' = "exited"
    /\ last' = [last EXCEPT
                  !.exit_status = IF stats.articles_indexed > 0 THEN 0 ELSE 1]
    /\ UNCHANGED <<run, dump, pos, max_articles, similarity_threshold,
                   cache_writable, cache, disk, page_data, existing_titles, sink,
                   stats, save_cache_counter, calls, annotated, written, prev,
                   aux_vars>>

\* a start whose load lets the unpickling error escape process_dump
StartRun_load_raises ==
    /\ pc = "start"
    /\ pc' = IF disk.kind = "corrupt" THEN "done" ELSE "pull"
    /\ cache' = load_processed_titles_cache(cache, disk)
    /\ \E export_ok \in BOOLEAN :
          existing_titles' = IF export_ok THEN sink ELSE {}
    /\ page_data' = <<>>
    /\ save_cache_counter' = 0
    /\ last' = [last EXCEPT
                  !.op = "load",
                  !.load = disk.kind,
                  !.loaded = IF disk.kind = "valid"
                             THEN UNION {disk.blob[c] : c \in Categories}
                             ELSE {}]
    /\ UNCHANGED <<run, dump, pos, max_articles, similarity_threshold,
                   cache_writable, disk, sink, stats, calls, annotated, written,
                   prev, aux_vars>>

\* process_dump up to the reader loop: load the cache, export the sink's titles
\* (get_all_existing_titles returns an empty set when the export fails)
StartRun ==
    /\ pc = "start"
    /\ pc' = "pull"
    /\ cache' = load_processed_titles_cache(cache, disk)
    /\ \E export_ok \in BOOLEAN :
          existing_titles' = IF export_ok THEN sink ELSE {}
    /\ page_data' = <<>>
    /\ save_cache_counter' = 0
    /\ last' = [last EXCEPT
                  !.op = "load",
                  !.load = disk.kind,
                  !.loaded = IF disk.kind = "valid"
                             THEN UNION {disk.blob[c] : c \in Categories}
                             ELSE {}]
    /\ UNCHANGED <<run, dump, pos, max_articles, similarity_threshold,
                   cache_writable, disk, sink, stats, calls, annotated, written, prev, aux_vars>>

\* save_processed_titles_cache up to the open(..., "wb"), which truncates the
\* file; an unwritable location makes open raise, which is caught
BeginSave(next_pc, after_pc) ==
    IF cache_writable
    THEN /\ disk' = DiskCorrupt
         /\ pc' = next_pc
    ELSE /\ disk' = disk
         /\ pc' = after_pc

\* one end-of-page event with a title and a text: lines 599-714
PullRecord ==
    /\ pc = "pull"
    /\ pos < Len(dump)
    /\ stats.articles_indexed < max_articles
    /\ pos' = pos + 1
    /\ LET current_title == dump[pos + 1]
           hit == is_title_already_processed(current_title, cache)
           dedup == dedup_decision(current_title, page_data, existing_titles,
                                   similarity_threshold)
       IN  IF hit.is_processed
           THEN /\ stats' = [stats EXCEPT !.cache_hits = @ + 1,
                                          !.articles_skipped = @ + 1]
                /\ last' = [last EXCEPT !.op = "cache_hit", !.title = current_title,
                                        !.fault = "none"]
                /\ UNCHANGED <<pc, cache, disk, page_data, sink, save_cache_counter,
                               calls, annotated, written>>
           ELSE IF dedup.similar
           THEN /\ cache' = add_title_to_cache(cache, current_title, "similar")
                /\ stats' = [stats EXCEPT !.articles_skipped = @ + 1]
                /\ calls' = [calls EXCEPT !.dedup = @ + 1]
                /\ last' = [last EXCEPT !.op = dedup.by, !.title = dedup.match,
                                        !.fault = "none"]
                /\ UNCHANGED <<pc, disk, page_data, sink, save_cache_counter,
                               annotated, written>>
           ELSE \E env \in Environments :
                LET nlp_data == process_with_stanza(env)
                    res == index_article(nlp_data, env)
                IN  /\ page_data' = Append(page_data, current_title)
                    /\ cache' = add_title_to_cache(cache, current_title,
                                                   outcome_category(res))
                    /\ stats' = [stats EXCEPT
                                   !.articles_processed = @ + 1,
                                   ![outcome_counter(res)] = @ + 1]
                    /\ sink' = IF res.stored THEN sink \cup {current_title} ELSE sink
                    /\ calls' = [calls EXCEPT
                                   !.dedup = @ + 1,
                                   !.annot = @ + 1,
                                   !.bulk = @ + (IF res.bulk THEN 1 ELSE 0)]
                    /\ annotated' = annotated \cup {current_title}
                    /\ written' = IF res.bulk THEN written \cup {current_title}
                                  ELSE written
                    /\ last' = [last EXCEPT
                                  !.op = res.reason,
                                  !.title = current_title,
                                  !.fault = IF env.annot = "raise" THEN "annotator"
                                            ELSE IF res.reason = "error" THEN "sink"
                                            ELSE "none"]
                    /\ IF save_cache_counter + 1 >= SaveEvery
                       THEN /\ save_cache_counter' = 0
                            /\ BeginSave("saving", "pull")
                       ELSE /\ save_cache_counter' = save_cache_counter + 1
                            /\ UNCHANGED <<pc, disk>>
    /\ UNCHANGED <<run, dump, max_articles, similarity_threshold, cache_writable,
                   existing_titles, prev, aux_vars>>

\* the rest of a periodic save_processed_titles_cache: pickle.dump writes the
\* blob, or raises and leaves what it had written
FinishSave ==
    /\ pc = "saving"
    /\ \E write_ok \in BOOLEAN :
          disk' = IF write_ok THEN DiskValid(cache) ELSE disk
    /\ pc' = "pull"
    /\ UNCHANGED <<run, dump, pos, max_articles, similarity_threshold,
                   cache_writable, cache, page_data, existing_titles, sink, stats,
                   save_cache_counter, calls, annotated, written, last, prev, aux_vars>>

\* the finally block, entered with the reason the loop ended
FinallyFrom(base, reason) ==
    /\ last' = [base EXCEPT !.end = reason,
                            !.final_save = IF cache_writable THEN "begun" ELSE "failed"]
    /\ BeginSave("finishing", "done")
    /\ UNCHANGED <<run, dump, pos, max_articles, similarity_threshold,
                   cache_writable, cache, page_data, existing_titles, sink,
                   save_cache_counter, calls, annotated, written, prev, aux_vars>>

Finally(reason) == FinallyFrom(last, reason)

\* a target test that does not leave the reader loop
TargetReached_without_break ==
    /\ pc = "pull"
    /\ stats.articles_indexed >= max_articles
    /\ UNCHANGED vars

\* the break at lines 720-727
TargetReached ==
    /\ pc = "pull"
    /\ stats.articles_indexed >= max_articles
    /\ stats' = stats
    /\ Finally("target")

\* iterparse is exhausted
SourceExhausted ==
    /\ pc = "pull"
    /\ stats.articles_indexed < max_articles
    /\ pos = Len(dump)
    /\ stats' = stats
    /\ Finally("exhausted")

\* a read error handled without the finally block
ReadError_without_finally ==
    /\ pc = "pull"
    /\ stats.articles_indexed < max_articles
    /\ stats' = [stats EXCEPT !.errors = @ + 1]
    /\ last' = [last EXCEPT !.end = "read_error"]
    /\ pc' = "done"
    /\ UNCHANGED <<run, dump, pos, max_articles, similarity_threshold,
                   cache_writable, cache, disk, page_data, existing_titles, sink,
                   save_cache_counter, calls, annotated, written, prev, aux_vars>>

\* bz2.open or iterparse raises: lines 729-731
ReadError ==
    /\ pc = "pull"
    /\ stats.articles_indexed < max_articles
    /\ stats' = [stats EXCEPT !.errors = @ + 1]
    /\ Finally("read_error")

\* mwparserfromhell.parse or strip_code raises on the text of the next page
\* (lines 593-596): the call is outside any per-title handler, so the exception
\* leaves the reader loop and is handled at lines 729-731
ParseError ==
    /\ pc = "pull"
    /\ stats.articles_indexed < max_articles
    /\ pos < Len(dump)
    /\ stats' = [stats EXCEPT !.errors = @ + 1]
    /\ FinallyFrom([last EXCEPT !.op = "parse", !.title = dump[pos + 1],
                                !.fault = "normalization"],
                   "read_error")

\* the rest of the final save_processed_titles_cache, then end_time and return
FinishFinalSave ==
    /\ pc = "finishing"
    /\ \E write_ok \in BOOLEAN :
          /\ disk' = IF write_ok THEN DiskValid(cache) ELSE disk
          /\ last' = [last EXCEPT !.final_save = IF write_ok THEN "ok" ELSE "failed"]
    /\ pc' = "done"
    /\ UNCHANGED <<run, dump, pos, max_articles, similarity_threshold,
                   cache_writable, cache, page_data, existing_titles, sink, stats,
                   save_cache_counter, calls, annotated, written, prev, aux_vars>>

\* the process is killed: nothing of the finally block runs
Kill ==
    /\ pc \in {"pull", "saving", "finishing"}
    /\ pc' = "killed"
    /\ last' = [last EXCEPT !.end = pc]
    /\ UNCHANGED <<run, dump, pos, max_articles, similarity_threshold,
                   cache_writable, cache, disk, page_data, existing_titles, sink,
                   stats, save_cache_counter, calls, annotated, written, prev,
                   aux_vars>>

\* the script is started again on the same dump with the same arguments:
\* WikiCorpusProcessor.__init__ builds an empty cache and zero counters
Restart ==
    /\ pc \in {"exited", "killed"}
    /\ run < MaxRuns
    /\ run' = run + 1
    /\ pc' = "main"
    /\ pos' = 0
    /\ cache' = EmptyCache
    /\ stats' = ZeroStats
    /\ page_data' = <<>>
    /\ existing_titles' = {}
    /\ save_cache_counter' = 0
    /\ calls' = ZeroCalls
    /\ annotated' = {}
    /\ written' = {}
    /\ last' = NoLast
    /\ prev' = [ended |-> IF pc = "killed" THEN "killed"
                          ELSE IF last.startup = "ok" THEN "done"
                          ELSE "aborted",
                indexed |-> cache["indexed"],
                final_save |-> last.final_save,
                n_indexed |-> prev.n_indexed + stats.articles_indexed,
                annotated |-> annotated]
    /\ UNCHANGED <<dump, max_articles, similarity_threshold, cache_writable, disk,
                   sink, aux_vars>>

Next ==
    \/ Startup
    \/ StartRun
    \/ PullRecord
    \/ FinishSave
    \/ TargetReached
    \/ SourceExhausted
    \/ ReadError
    \/ ParseError
    \/ FinishFinalSave
    \/ Exit
    \/ Kill
    \/ Restart

Spec == Init /\ [][Next]_vars

-----------------------------------------------------------------------------
(* SpecFlags: the runs of Spec, each started with any combination of the    *)
(* command line flags --clear-cache and --force-recreate                     *)

\* main up to the reader loop's preparations with the two flags: the cache
\* file is unlinked before the sink is contacted, and
\* initialize_elasticsearch(force_recreate=True) deletes the index and
\* creates an empty one once the ping has succeeded
StartupFlags ==
    /\ pc = "main"
    /\ \E clear_cache \in BOOLEAN, force_recreate \in BOOLEAN,
          sink_ok \in BOOLEAN, annotator_ok \in BOOLEAN, dump_exists \in BOOLEAN :
          LET startup == IF ~sink_ok THEN "no_sink"
                         ELSE IF ~annotator_ok THEN "no_annotator"
                         ELSE IF ~dump_exists THEN "no_dump"
                         ELSE "ok"
          IN  /\ disk' = IF clear_cache THEN DiskAbsent ELSE disk
              /\ sink' = IF sink_ok /\ force_recreate THEN {} ELSE sink
              /\ pc' = IF startup = "ok" THEN "start" ELSE "exited"
              /\ last' = [last EXCEPT
                            !.startup = startup,
                            !.exit_status = IF startup = "ok" THEN -1 ELSE 1]
    /\ UNCHANGED <<run, dump, pos, max_articles, similarity_threshold,
                   cache_writable, cache, page_data, existing_titles,
                   stats, save_cache_counter, calls, annotated, written, prev,
                   aux_vars>>

NextFlags ==
    \/ StartupFlags
    \/ StartRun
    \/ PullRecord
    \/ FinishSave
    \/ TargetReached
    \/ SourceExhausted
    \/ ReadError
    \/ ParseError
    \/ FinishFinalSave
    \/ Exit
    \/ Kill
    \/ Restart

SpecFlags == Init /\ [][NextFlags]_vars

-----------------------------------------------------------------------------
(* SpecSimple: SimpleWikiCorpusProcessor *)

\* what process_article_worker returns for one article: an error message, no
\* document, or the documents of its quality sentences
WorkerResults ==
    { [success |-> FALSE, error |-> TRUE, documents |-> 0],
      [success |-> FALSE, error |-> FALSE, documents |-> 0] }
    \cup { [success |-> TRUE, error |-> FALSE, documents |-> n] : n \in 1..MaxSentences }

RECURSIVE CountDocuments(_)
\* len(all_documents) after all_documents.extend(data) for every success
CountDocuments(results) ==
    IF results = <<>> THEN 0
    ELSE Head(results).documents + CountDocuments(Tail(results))

\* elasticsearch.helpers.bulk called without raise_on_error / raise_on_exception
\* (both default to True): it raises when the sink is unreachable and when the
\* sink fails any item; otherwise it returns the success count and an empty
\* error list
helpers_bulk(n_documents, failed, connection_ok) ==
    IF ~connection_ok \/ failed > 0
    THEN [raised |-> TRUE, success |-> 0, errors |-> 0]
    ELSE [raised |-> FALSE, success |-> n_documents, errors |-> 0]

\* index_documents_batch: helpers.bulk raises on any failure, so the returned
\* error list is empty and every document counts as a success
index_documents_batch(n_documents, bulk_ok) ==
    IF n_documents = 0 THEN [success_count |-> 0, error_count |-> 0]
    ELSE IF bulk_ok THEN [success_count |-> n_documents, error_count |-> 0]
    ELSE [success_count |-> 0, error_count |-> n_documents]

\* process_articles_batch: the three counts it returns
process_articles_batch(results, bulk_ok) ==
    LET n_documents == CountDocuments(results)
        indexing == index_documents_batch(n_documents, bulk_ok)
        rejected == Cardinality({i \in DOMAIN results :
                                   ~results[i].success /\ ~results[i].error})
        failed == Cardinality({i \in DOMAIN results : results[i].error})
    IN  [indexed_count |-> indexing.success_count,
         rejected_count |-> rejected,
         error_count |-> failed + indexing.error_count]

\* the statistics update that follows a processed batch
batch_stats(st, counts) ==
    [st EXCEPT !.articles_indexed = @ + counts.indexed_count,
               !.articles_rejected = @ + counts.rejected_count,
               !.errors = @ + counts.error_count]

\* the variables SimpleWikiCorpusProcessor does not have
batch_frame == <<run, similarity_threshold, cache_writable, cache, disk,
                 page_data, existing_titles, sink, save_cache_counter,
                 annotated, written, prev, es, submitted, checker_config, evals,
                 chunk_vars, reader_vars, sched_vars>>

simple_frame == <<batch_frame, calls>>

NoBatchCounts == [rejected_count |-> 0, error_count |-> 0]

\* no batch is being processed
PoolIdle ==
    /\ futures = <<>>
    /\ all_documents = 0
    /\ batch_counts = NoBatchCounts

InitSimple ==
    /\ IndexIdle
    /\ run = 1
    /\ pc = "pull"
    /\ dump \in Dumps
    /\ pos = 0
    /\ max_articles \in 1..MaxTarget
    /\ batch_size \in 1..MaxBatch
    /\ current_batch = <<>>
    /\ stats = ZeroStats
    /\ last = NoLast
    /\ similarity_threshold = 800
    /\ cache_writable = TRUE
    /\ cache = EmptyCache
    /\ disk = DiskAbsent
    /\ page_data = <<>>
    /\ existing_titles = {}
    /\ sink = {}
    /\ save_cache_counter = 0
    /\ calls = ZeroCalls
    /\ annotated = {}
    /\ written = {}
    /\ prev = NoPrev

\* process_articles_batch on `batch` and the statistics update after it; the
\* workers' results, the items the sink fails and its reachability are the
\* environment's choice; calls.annot counts the records handed to the workers
ProcessBatch(batch, st, end) ==
    \E results \in [1..Len(batch) -> WorkerResults], connection_ok \in BOOLEAN :
      \E failed \in 0..CountDocuments(results) :
        LET n_documents == CountDocuments(results)
            bulk_ok == ~helpers_bulk(n_documents, failed, connection_ok).raised
            commit == index_documents_batch(n_documents, bulk_ok)
        IN  /\ stats' = batch_stats(st, process_articles_batch(results, bulk_ok))
            /\ calls' = [calls EXCEPT !.annot = @ + Len(batch)]
            /\ last' = [last EXCEPT
                          !.op = "batch",
                          !.end = end,
                          !.commit = [submitted |-> n_documents,
                                      failed |-> failed,
                                      connected |-> connection_ok,
                                      success_count |-> commit.success_count,
                                      error_count |-> commit.error_count]]

\* one end-of-page event with a title and a text: lines 403-432
SimplePullRecord ==
    /\ pc = "pull"
    /\ pos < Len(dump)
    /\ stats.articles_indexed < max_articles
    /\ pos' = pos + 1
    /\ LET batch == Append(current_batch, dump[pos + 1])
           processed == [stats EXCEPT !.articles_processed = @ + 1]
       IN  IF Len(batch) >= batch_size
           THEN /\ ProcessBatch(batch, processed, last.end)
                /\ current_batch' = <<>>
           ELSE /\ stats' = processed
                /\ current_batch' = batch
                /\ calls' = calls
                /\ last' = [last EXCEPT !.op = "append"]
    /\ UNCHANGED <<pc, dump, max_articles, batch_size, batch_frame, pool_vars>>

\* an end of the loop that leaves the open batch where it is
SimpleFinish_dropping_batch ==
    /\ pc = "pull"
    /\ stats.articles_indexed >= max_articles \/ pos = Len(dump)
    /\ last' = [last EXCEPT !.end = IF stats.articles_indexed >= max_articles
                                    THEN "target" ELSE "exhausted"]
    /\ pc' = "done"
    /\ UNCHANGED <<dump, pos, max_articles, batch_size, current_batch, stats,
                   simple_frame, pool_vars>>

\* the loop ends by a break or by the end of the stream; the last, partial
\* batch is processed if the target is not reached; then the finally block
SimpleFinish ==
    /\ pc = "pull"
    /\ stats.articles_indexed >= max_articles \/ pos = Len(dump)
    /\ LET end == IF stats.articles_indexed >= max_articles
                  THEN "target" ELSE "exhausted"
       IN  IF current_batch # <<>> /\ stats.articles_indexed < max_articles
           THEN ProcessBatch(current_batch, stats, end)
           ELSE /\ stats' = stats
                /\ calls' = calls
                /\ last' = [last EXCEPT !.end = end]
    /\ pc' = "done"
    /\ UNCHANGED <<dump, pos, max_articles, batch_size, current_batch, batch_frame, pool_vars>>

\* bz2.open or iterparse raises: lines 452-459
SimpleReadError ==
    /\ pc = "pull"
    /\ stats.articles_indexed < max_articles
    /\ stats' = [stats EXCEPT !.errors = @ + 1]
    /\ last' = [last EXCEPT !.end = "read_error"]
    /\ pc' = "done"
    /\ UNCHANGED <<dump, pos, max_articles, batch_size, current_batch, simple_frame, pool_vars>>

NextSimple ==
    \/ SimplePullRecord
    \/ SimpleFinish
    \/ SimpleReadError

SpecSimple == InitSimple /\ [][NextSimple]_vars

-----------------------------------------------------------------------------
(* SpecTerm: one invocation of either orchestrator from its start to its    *)
(* return, never killed; every call the process makes returns                *)

InitTerm ==
    \/ Init
    \/ InitSimple

\* one step of main and process_dump of the sequential orchestrator, the one
\* whose startup the model follows
SequentialStep ==
    /\ pc = "main" \/ last.startup = "ok"
    /\ \/ Startup
       \/ StartRun
       \/ PullRecord
       \/ FinishSave
       \/ TargetReached
       \/ SourceExhausted
       \/ ReadError
       \/ ParseError
       \/ FinishFinalSave
       \/ Exit

\* one step of process_dump of the batched orchestrator
BatchedStep ==
    /\ pc # "main"
    /\ last.startup = "none"
    /\ \/ SimplePullRecord
       \/ SimpleFinish
       \/ SimpleReadError

NextTerm ==
    \/ SequentialStep
    \/ BatchedStep

\* the process is sequential and is not suspended: whenever it has a next
\* step it takes one
SpecTerm == InitTerm /\ [][NextTerm]_vars /\ WF_vars(NextTerm)

-----------------------------------------------------------------------------
(* SpecReader: the reader loop of process_dump of both orchestrators, event  *)
(* by event.  What happens to a pair that passed the test of line 599 / 403  *)
(* is left to Spec and SpecSimple; here the pair is appended to emitted.     *)

\* elem.text of an element without character data
None == "None"

\* elem.text of the model: a title, a body in plain text, a body that is
\* markup only, a body mwparserfromhell.parse raises on
TitleTexts == {None, "Berlin"}
BodyTexts == {None, "plain", "markup", "broken"}

\* wikicode.strip_code(): plain text stays, markup goes
strip_code(body) == IF body = "markup" THEN "" ELSE body

\* the truth value of a str or None
truthy(v) == v # None /\ v # ""

Leaf(tag, value) == [tag |-> tag, text |-> value, children |-> <<>>]
Page(children) == [tag |-> "page", text |-> None, children |-> children]

\* the pages of the model: complete; no title; no text element; empty title;
\* empty text; markup-only text; two revisions; a text parse raises on
PageShapes ==
    { <<Leaf("title", "Berlin"), Leaf("text", "plain")>>,
      <<Leaf("text", "plain")>>,
      <<Leaf("title", "Berlin")>>,
      <<Leaf("title", None), Leaf("text", "plain")>>,
      <<Leaf("title", "Berlin"), Leaf("text", None)>>,
      <<Leaf("title", "Berlin"), Leaf("text", "markup")>>,
      <<Leaf("title", "Berlin"), Leaf("text", "plain"), Leaf("text", None)>>,
      <<Leaf("title", "Berlin"), Leaf("text", "broken")>> }

\* the elements below the root: pages, and title and text elements that are
\* in no page
Items ==
    { Page(children) : children \in PageShapes }
        \cup { Leaf("title", "Berlin"), Leaf("text", "plain") }

Readers == {"sequential", "batched"}

RECURSIVE leaf_events(_)
leaf_events(children) ==
    IF children = <<>> THEN <<>>
    ELSE <<[event |-> "start", tag |-> Head(children).tag, text |-> None],
           [event |-> "end", tag |-> Head(children).tag,
            text |-> Head(children).text]>>
             \o leaf_events(Tail(children))

RECURSIVE iterparse(_)
\* ET.iterparse(f, events=("start", "end")): a start and an end event per
\* element, in document order
iterparse(elements) ==
    IF elements = <<>> THEN <<>>
    ELSE LET elem == Head(elements)
         IN  (IF elem.tag = "page"
              THEN <<[event |-> "start", tag |-> "page", text |-> None]>>
                       \o leaf_events(elem.children)
                       \o <<[event |-> "end", tag |-> "page", text |-> None]>>
              ELSE leaf_events(<<elem>>))
                 \o iterparse(Tail(elements))

reader_frame == <<run, dump, pos, max_articles, similarity_threshold,
                  cache_writable, cache, disk, page_data, existing_titles, sink,
                  save_cache_counter, calls, annotated, written, last, prev,
                  current_batch, batch_size, es, submitted, checker_config, evals,
                  chunk_vars, pool_vars, sched_vars>>

InitReader ==
    /\ reader \in Readers
    /\ items \in UNION { [1..n -> Items] : n \in 0..MaxItems }
    /\ events = iterparse(items)
    /\ ev_pos = 0
    /\ in_page = FALSE
    /\ page_title = None
    /\ page_text = None
    /\ emitted = <<>>
    /\ SchedIdle
    /\ pc = "read"
    /\ stats = ZeroStats
    /\ futures = <<>>
    /\ all_documents = 0
    /\ batch_counts = [rejected_count |-> 0, error_count |-> 0]
    /\ text = <<>>
    /\ chunk_size = 1
    /\ chunks = <<>>
    /\ chunk_pos = 0
    /\ all_sentences = <<>>
    /\ nlp_log = <<>>
    /\ book_outcome = "none"
    /\ es = {}
    /\ submitted = <<>>
    /\ checker_config = [p \in Processes |-> DefaultConfig]
    /\ evals = <<>>
    /\ last = NoLast
    /\ run = 1
    /\ dump = <<>>
    /\ pos = 0
    /\ max_articles = 1
    /\ similarity_threshold = 800
    /\ cache_writable = TRUE
    /\ cache = EmptyCache
    /\ disk = DiskAbsent
    /\ page_data = <<>>
    /\ existing_titles = {}
    /\ sink = {}
    /\ save_cache_counter = 0
    /\ calls = ZeroCalls
    /\ annotated = {}
    /\ written = {}
    /\ prev = NoPrev
    /\ current_batch = <<>>
    /\ batch_size = 1

\* a start event: lines 583-587 (simple: 387-391)
StartEvent ==
    /\ pc = "read"
    /\ ev_pos < Len(events)
    /\ events[ev_pos + 1].event = "start"
    /\ ev_pos' = ev_pos + 1
    /\ IF events[ev_pos + 1].tag = "page"
       THEN /\ in_page' = TRUE
            /\ page_title' = None
            /\ page_text' = None
       ELSE UNCHANGED <<in_page, page_title, page_text>>
    /\ UNCHANGED <<pc, stats, reader, items, events, emitted, reader_frame>>

\* the end event of a title element: lines 589-590 (simple: 393-394)
TitleEnd ==
    /\ pc = "read"
    /\ ev_pos < Len(events)
    /\ events[ev_pos + 1].event = "end"
    /\ events[ev_pos + 1].tag = "title"
    /\ ev_pos' = ev_pos + 1
    /\ page_title' = IF in_page THEN events[ev_pos + 1].text ELSE page_title
    /\ UNCHANGED <<pc, stats, reader, items, events, in_page, page_text,
                   emitted, reader_frame>>

\* the end event of a text element: lines 593-596 (simple: 395-398); an
\* exception of mwparserfromhell.parse ends the loop in the handler of lines
\* 729-731 (simple: 452-454)
TextEnd ==
    /\ pc = "read"
    /\ ev_pos < Len(events)
    /\ events[ev_pos + 1].event = "end"
    /\ events[ev_pos + 1].tag = "text"
    /\ ev_pos' = ev_pos + 1
    /\ LET elem_text == events[ev_pos + 1].text
       IN  IF in_page /\ truthy(elem_text) /\ elem_text = "broken"
           THEN /\ pc' = "done"
                /\ stats' = [stats EXCEPT !.errors = @ + 1]
                /\ page_text' = page_text
           ELSE /\ pc' = pc
                /\ stats' = stats
                /\ page_text' = IF in_page /\ truthy(elem_text)
                                   THEN strip_code(elem_text)
                                   ELSE page_text
    /\ UNCHANGED <<reader, items, events, in_page, page_title, emitted,
                   reader_frame>>

\* the end event of a page element: lines 597-599 (simple: 399-405, which
\* also resets in_page)
PageEnd ==
    /\ pc = "read"
    /\ ev_pos < Len(events)
    /\ events[ev_pos + 1].event = "end"
    /\ events[ev_pos + 1].tag = "page"
    /\ ev_pos' = ev_pos + 1
    /\ IF in_page
       THEN /\ in_page' = IF reader = "batched" THEN FALSE ELSE in_page
            /\ emitted' = IF truthy(page_title) /\ truthy(page_text)
                          THEN Append(emitted, [title |-> page_title,
                                                text |-> page_text])
                          ELSE emitted
       ELSE UNCHANGED <<in_page, emitted>>
    /\ UNCHANGED <<pc, stats, reader, items, events, page_title,
                   page_text, reader_frame>>

\* the stream is exhausted
EndOfStream ==
    /\ pc = "read"
    /\ ev_pos = Len(events)
    /\ pc' = "done"
    /\ UNCHANGED <<stats, reader_vars, reader_frame>>

NextReader ==
    \/ StartEvent
    \/ TitleEnd
    \/ TextEnd
    \/ PageEnd
    \/ EndOfStream

SpecReader == InitReader /\ [][NextReader]_vars

-----------------------------------------------------------------------------
(* SpecPool: SimpleWikiCorpusProcessor with process_articles_batch step by   *)
(* step: the tasks of a batch complete one by one inside the pool's with     *)
(* block, the block ends, and then the one bulk commit of the batch runs.    *)
(* The reader loop is the caller of process_articles_batch and waits for it. *)

InitPool ==
    /\ InitSimple
    /\ PoolIdle

\* lines 312-317: the pool is created and every article of the batch submitted
submit_batch(batch) == [i \in 1..Len(batch) |-> "running"]

\* lines 403-410: an end-of-page event; a full batch is handed to
\* process_articles_batch
PoolPullRecord ==
    /\ pc = "pull"
    /\ pos < Len(dump)
    /\ stats.articles_indexed < max_articles
    /\ pos' = pos + 1
    /\ stats' = [stats EXCEPT !.articles_processed = @ + 1]
    /\ current_batch' = Append(current_batch, dump[pos + 1])
    /\ IF Len(current_batch') >= batch_size
       THEN /\ pc' = "pool"
            /\ futures' = submit_batch(current_batch')
            /\ last' = [last EXCEPT !.op = "batch"]
       ELSE /\ pc' = "pull"
            /\ futures' = futures
            /\ last' = [last EXCEPT !.op = "append"]
    /\ UNCHANGED <<dump, max_articles, batch_size, all_documents, batch_counts,
                   simple_frame>>

\* lines 320-337: one task completes and the loop over as_completed takes its
\* result
TaskCompletes ==
    /\ pc = "pool"
    /\ \E i \in DOMAIN futures, result \in WorkerResults :
          /\ futures[i] = "running"
          /\ futures' = [futures EXCEPT ![i] = "done"]
          /\ all_documents' = all_documents + result.documents
          /\ batch_counts' =
                [rejected_count |-> batch_counts.rejected_count
                     + (IF ~result.success /\ ~result.error THEN 1 ELSE 0),
                 error_count |-> batch_counts.error_count
                     + (IF result.error THEN 1 ELSE 0)]
    /\ UNCHANGED <<pc, dump, pos, max_articles, batch_size, current_batch, stats,
                   last, simple_frame>>

\* what follows process_articles_batch in the reader loop (lines 413-432) or
\* after it (lines 446-450)
after_batch(counts) ==
    /\ stats' = batch_stats(stats, counts)
    /\ current_batch' = <<>>
    /\ futures' = <<>>
    /\ all_documents' = 0
    /\ batch_counts' = NoBatchCounts
    /\ pc' = IF last.end = "none" THEN "pull" ELSE "done"

\* line 338: every task is done and the with block ends; with documents the
\* bulk commit of line 341 starts, without any the batch is finished
PoolShutdown ==
    /\ pc = "pool"
    /\ \A i \in DOMAIN futures : futures[i] = "done"
    /\ IF all_documents > 0
       THEN /\ pc' = "commit"
            /\ UNCHANGED <<stats, current_batch, pool_vars>>
       ELSE after_batch([indexed_count |-> 0,
                         rejected_count |-> batch_counts.rejected_count,
                         error_count |-> batch_counts.error_count])
    /\ UNCHANGED <<dump, pos, max_articles, batch_size, last, simple_frame>>

\* lines 341-343: index_documents_batch returns, however long it took
CommitReturns ==
    /\ pc = "commit"
    /\ \E connection_ok \in BOOLEAN, failed \in 0..all_documents :
          LET bulk_ok == ~helpers_bulk(all_documents, failed, connection_ok).raised
              commit == index_documents_batch(all_documents, bulk_ok)
          IN  /\ after_batch([indexed_count |-> commit.success_count,
                              rejected_count |-> batch_counts.rejected_count,
                              error_count |-> batch_counts.error_count
                                                + commit.error_count])
              /\ last' = [last EXCEPT
                            !.commit = [submitted |-> all_documents,
                                        failed |-> failed,
                                        connected |-> connection_ok,
                                        success_count |-> commit.success_count,
                                        error_count |-> commit.error_count]]
    /\ UNCHANGED <<dump, pos, max_articles, batch_size, simple_frame>>

\* the loop ends by a break or by the end of the stream: lines 437-450
PoolFinish ==
    /\ pc = "pull"
    /\ stats.articles_indexed >= max_articles \/ pos = Len(dump)
    /\ LET end == IF stats.articles_indexed >= max_articles
                  THEN "target" ELSE "exhausted"
       IN  /\ last' = [last EXCEPT !.end = end]
           /\ IF current_batch # <<>> /\ stats.articles_indexed < max_articles
              THEN /\ pc' = "pool"
                   /\ futures' = submit_batch(current_batch)
              ELSE /\ pc' = "done"
                   /\ futures' = futures
    /\ UNCHANGED <<dump, pos, max_articles, batch_size, current_batch, stats,
                   all_documents, batch_counts, simple_frame>>

\* bz2.open or iterparse raises: lines 452-459
PoolReadError ==
    /\ pc = "pull"
    /\ stats.articles_indexed < max_articles
    /\ stats' = [stats EXCEPT !.errors = @ + 1]
    /\ last' = [last EXCEPT !.end = "read_error"]
    /\ pc' = "done"
    /\ UNCHANGED <<dump, pos, max_articles, batch_size, current_batch, pool_vars,
                   simple_frame>>

NextPool ==
    \/ PoolPullRecord
    \/ TaskCompletes
    \/ PoolShutdown
    \/ CommitReturns
    \/ PoolFinish
    \/ PoolReadError

SpecPool == InitPool /\ [][NextPool]_vars

-----------------------------------------------------------------------------
(* SpecCache: add_title_to_cache as a function of the cache *)

\* the caches whose four sets are pairwise disjoint
DisjointCaches ==
    { [k \in Categories |-> {t \in Titles : f[t] = k}] :
        f \in [Titles -> Categories \cup {"none"}] }

InitCache ==
    /\ IndexIdle
    /\ cache \in DisjointCaches
    /\ last = NoLast
    /\ run = 1
    /\ pc = "cache"
    /\ dump = <<>>
    /\ pos = 0
    /\ max_articles = 1
    /\ similarity_threshold = 800
    /\ cache_writable = TRUE
    /\ disk = DiskAbsent
    /\ page_data = <<>>
    /\ existing_titles = {}
    /\ sink = {}
    /\ stats = ZeroStats
    /\ save_cache_counter = 0
    /\ calls = ZeroCalls
    /\ annotated = {}
    /\ written = {}
    /\ prev = NoPrev
    /\ current_batch = <<>>
    /\ batch_size = 1

\* a call of add_title_to_cache with any title and any category name
RecordTitle ==
    /\ pc = "cache"
    /\ \E title \in Titles, category \in Categories \cup {"unknown"} :
          /\ cache' = add_title_to_cache(cache, title, category)
          /\ last' = [last EXCEPT !.op = "record", !.title = title, !.end = category]
    /\ UNCHANGED <<run, pc, dump, pos, max_articles, similarity_threshold,
                   cache_writable, disk, page_data, existing_titles, sink, stats,
                   save_cache_counter, calls, annotated, written, prev, aux_vars>>

NextCache == RecordTitle

SpecCache == InitCache /\ [][NextCache]_vars

-----------------------------------------------------------------------------
(* SpecDedup: the similarity passes as a function of their inputs *)

TitleBern == <<"B", "e", "r", "n">>
DedupTitles == Titles \cup {TitleBern}
DedupThresholds == {800, 805, 900}

\* the key orders page_data can have: distinct titles in insertion order
InFlightOrders ==
    { q \in UNION { [1..n -> DedupTitles] : n \in 0..MaxInFlight } :
        \A i, j \in DOMAIN q : i # j => q[i] # q[j] }

InitDedup ==
    /\ IndexIdle
    /\ dump \in { <<t>> : t \in DedupTitles }
    /\ page_data \in InFlightOrders
    /\ existing_titles \in SUBSET DedupTitles
    /\ similarity_threshold \in DedupThresholds
    /\ pc = "dedup"
    /\ pos = 0
    /\ last = NoLast
    /\ run = 1
    /\ max_articles = 1
    /\ cache_writable = TRUE
    /\ cache = EmptyCache
    /\ disk = DiskAbsent
    /\ sink = {}
    /\ stats = ZeroStats
    /\ save_cache_counter = 0
    /\ calls = ZeroCalls
    /\ annotated = {}
    /\ written = {}
    /\ prev = NoPrev
    /\ current_batch = <<>>
    /\ batch_size = 1

\* lines 611-645 for the record dump[1]
Decide ==
    /\ pc = "dedup"
    /\ pc' = "decided"
    /\ pos' = 1
    /\ LET dedup == dedup_decision(dump[1], page_data, existing_titles,
                                   similarity_threshold)
       IN  last' = [last EXCEPT !.op = dedup.by, !.title = dedup.match]
    /\ UNCHANGED <<run, dump, max_articles, similarity_threshold, cache_writable,
                   cache, disk, page_data, existing_titles, sink, stats,
                   save_cache_counter, calls, annotated, written, prev, aux_vars>>

NextDedup == Decide

SpecDedup == InitDedup /\ [][NextDedup]_vars

-----------------------------------------------------------------------------
(* SpecMono: the dedup decisions of two runs over the same records, the same  *)
(* sink snapshot and the same (empty) cache, at thresholds T1 < T2.  The      *)
(* target is out of reach, so both runs see every record.                    *)

TitleBerlins == <<"B", "e", "r", "l", "i", "n", "s">>
MonoTitles == {TitleBern, TitleBerlin, TitleBerlins, TitleMunich}
MonoDumps == [1..MonoLen -> MonoTitles]

InitMono ==
    /\ IndexIdle
    /\ dump \in MonoDumps
    /\ existing_titles \in {{}, {TitleBerlinLower}}
    /\ similarity_threshold \in DedupThresholds
    /\ max_articles = MonoLen + 1
    /\ run = 1
    /\ pc = "pull"
    /\ pos = 0
    /\ cache_writable = TRUE
    /\ cache = EmptyCache
    /\ disk = DiskAbsent
    /\ page_data = <<>>
    /\ sink = {}
    /\ stats = ZeroStats
    /\ save_cache_counter = 0
    /\ calls = ZeroCalls
    /\ annotated = {}
    /\ written = {}
    /\ last = NoLast
    /\ prev = NoPrev
    /\ current_batch = <<>>
    /\ batch_size = 1

\* lines 599-688 for one record: lookup, the two passes, processing
MonoPull ==
    /\ pc = "pull"
    /\ pos < Len(dump)
    /\ pos' = pos + 1
    /\ LET current_title == dump[pos + 1]
           hit == is_title_already_processed(current_title, cache)
           dedup == dedup_decision(current_title, page_data, existing_titles,
                                   similarity_threshold)
       IN  IF hit.is_processed
           THEN /\ last' = [last EXCEPT !.op = "cache_hit", !.title = current_title]
                /\ UNCHANGED <<cache, page_data, annotated>>
           ELSE IF dedup.similar
           THEN /\ cache' = add_title_to_cache(cache, current_title, "similar")
                /\ last' = [last EXCEPT !.op = dedup.by, !.title = dedup.match]
                /\ UNCHANGED <<page_data, annotated>>
           ELSE \E env \in Environments :
                LET res == index_article(process_with_stanza(env), env)
                IN  /\ page_data' = Append(page_data, current_title)
                    /\ cache' = add_title_to_cache(cache, current_title,
                                                   outcome_category(res))
                    /\ annotated' = annotated \cup {current_title}
                    /\ last' = [last EXCEPT !.op = "accepted", !.title = current_title]
    /\ UNCHANGED <<run, pc, dump, max_articles, similarity_threshold, cache_writable,
                   disk, existing_titles, sink, stats, save_cache_counter, calls,
                   written, prev, aux_vars>>

\* the same records, sink snapshot and cache again, with a higher threshold
MonoRerun ==
    /\ pc = "pull"
    /\ pos = Len(dump)
    /\ run = 1
    /\ \E stricter \in DedupThresholds :
          /\ stricter > similarity_threshold
          /\ similarity_threshold' = stricter
    /\ run' = 2
    /\ pos' = 0
    /\ cache' = EmptyCache
    /\ page_data' = <<>>
    /\ annotated' = {}
    /\ last' = NoLast
    /\ prev' = [prev EXCEPT !.ended = "done", !.annotated = annotated]
    /\ UNCHANGED <<pc, dump, max_articles, cache_writable, disk, existing_titles,
                   sink, stats, save_cache_counter, calls, written, aux_vars>>

\* the second run has seen every record
MonoEnd ==
    /\ pc = "pull"
    /\ pos = Len(dump)
    /\ run = 2
    /\ pc' = "done"
    /\ UNCHANGED <<run, dump, pos, max_articles, similarity_threshold,
                   cache_writable, cache, disk, page_data, existing_titles, sink,
                   stats, save_cache_counter, calls, annotated, written, last, prev,
                   aux_vars>>

NextMono ==
    \/ MonoPull
    \/ MonoRerun
    \/ MonoEnd

SpecMono == InitMono /\ [][NextMono]_vars

-----------------------------------------------------------------------------
(* SpecIndex: index_article on sentences.  A doc_dict is a sequence of       *)
(* sentences, a sentence the sequence of its token texts.                    *)

\* the tokens of "Berlin ist die Hauptstadt von Deutschland."
TokensCapital ==
    << <<"B", "e", "r", "l", "i", "n">>, <<"i", "s", "t">>,
       <<"d", "i", "e">>,
       <<"H", "a", "u", "p", "t", "s", "t", "a", "d", "t">>,
       <<"v", "o", "n">>,
       <<"D", "e", "u", "t", "s", "c", "h", "l", "a", "n", "d">>, <<".">> >>
\* the tokens of "Die Stadt ist sehr bekannt."
TokensKnown ==
    << <<"D", "i", "e">>, <<"S", "t", "a", "d", "t">>, <<"i", "s", "t">>,
       <<"s", "e", "h", "r">>, <<"b", "e", "k", "a", "n", "n", "t">>, <<".">> >>
\* the tokens of "Siehe auch Berlin."
TokensSeeAlso ==
    << <<"S", "i", "e", "h", "e">>, <<"a", "u", "c", "h">>,
       <<"B", "e", "r", "l", "i", "n">>, <<".">> >>

IndexSentences == {TokensCapital, TokensKnown, TokensSeeAlso}
IndexTitles == {TitleBerlin}
DocDicts == UNION { [1..n -> IndexSentences] : n \in 0..MaxSentences }

RECURSIVE join_tokens(_)
\* " ".join([token["text"] for token in sentence])
join_tokens(tokens) ==
    IF tokens = <<>> THEN <<>>
    ELSE IF Len(tokens) = 1 THEN Head(tokens)
    ELSE Head(tokens) \o <<" ">> \o join_tokens(Tail(tokens))

DigitOrder == <<"0", "1", "2", "3", "4", "5", "6", "7", "8", "9">>

RECURSIVE decimal(_)
decimal(n) ==
    IF n < 10 THEN <<DigitOrder[n + 1]>>
    ELSE decimal(n \div 10) \o <<DigitOrder[(n % 10) + 1]>>

RECURSIVE zero_pad(_, _)
\* the format specification 04d
zero_pad(digits, width) ==
    IF Len(digits) >= width THEN digits ELSE zero_pad(<<"0">> \o digits, width)

\* f"{title}_{sent_idx:04d}"
sentence_id(title, sent_idx) == title \o <<"_">> \o zero_pad(decimal(sent_idx), 4)

RECURSIVE build_documents_unfiltered(_, _, _, _)
\* document assembly without the quality check
build_documents_unfiltered(title, doc_dict, sent_idx, config) ==
    IF doc_dict = <<>> THEN <<>>
    ELSE <<[id |-> sentence_id(title, sent_idx), title |-> title,
            sentence_text |-> join_tokens(Head(doc_dict))]>>
         \o build_documents_unfiltered(title, Tail(doc_dict), sent_idx + 1, config)

RECURSIVE build_documents(_, _, _, _)
\* the loop of index_article over enumerate(doc_dict), from sent_idx on: the
\* documents of the sentences that pass is_quality_sentence(sentence_text)
build_documents(title, doc_dict, sent_idx, config) ==
    IF doc_dict = <<>> THEN <<>>
    ELSE LET sentence_text == join_tokens(Head(doc_dict))
             rest == build_documents(title, Tail(doc_dict), sent_idx + 1, config)
         IN  IF ~is_quality_sentence(sentence_text, "en", config)
             THEN rest
             ELSE <<[id |-> sentence_id(title, sent_idx), title |-> title,
                     sentence_text |-> sentence_text]>> \o rest

\* the documents index_article assembles for every article of the model, with
\* the default configuration of the checker (tabulated once)
ArticleDocuments ==
    { [title |-> title, doc_dict |-> doc_dict,
       documents |-> build_documents(title, doc_dict, 0, DefaultConfig)] :
         title \in IndexTitles, doc_dict \in DocDicts }

\* an index operation that adds a document beside the one with the same _id
es_index_appending(docs, doc) ==
    docs \cup {[id |-> doc.id, title |-> doc.title,
                sentence_text |-> doc.sentence_text,
                version |-> 1 + Cardinality({d \in docs : d.id = doc.id})]}

\* one "index" operation of the sink: a document with the same _id is
\* replaced and its version incremented
es_index(docs, doc) ==
    LET old == {d \in docs : d.id = doc.id}
    IN  (docs \ old)
        \cup {[id |-> doc.id, title |-> doc.title,
               sentence_text |-> doc.sentence_text,
               version |-> IF old = {} THEN 1
                           ELSE 1 + (CHOOSE d \in old : TRUE).version]}

RECURSIVE es_bulk(_, _, _, _)
\* what a reachable sink holds after helpers.bulk(documents): every item is
\* applied in order except the items at the positions in `failed`
es_bulk(docs, documents, failed, i) ==
    IF i > Len(documents) THEN docs
    ELSE es_bulk(IF i \in failed THEN docs ELSE es_index(docs, documents[i]),
                 documents, failed, i + 1)

\* the version a document id has in the index, 0 if absent
es_version(docs, id) ==
    IF \E d \in docs : d.id = id
    THEN (CHOOSE d \in docs : d.id = id).version
    ELSE 0

InitIndex ==
    /\ IndexIdle
    /\ pc = "index"
    /\ last = NoLast
    /\ run = 1
    /\ dump = <<>>
    /\ pos = 0
    /\ max_articles = 1
    /\ similarity_threshold = 800
    /\ cache_writable = TRUE
    /\ cache = EmptyCache
    /\ disk = DiskAbsent
    /\ page_data = <<>>
    /\ existing_titles = {}
    /\ sink = {}
    /\ stats = ZeroStats
    /\ save_cache_counter = 0
    /\ calls = ZeroCalls
    /\ annotated = {}
    /\ written = {}
    /\ prev = NoPrev
    /\ current_batch = <<>>
    /\ batch_size = 1

\* index_article(title, nlp_data) with the default configuration of the
\* checker; the sink's reachability and the item it fails, if any, are the
\* environment's choice
IndexArticle ==
    /\ pc = "index"
    /\ \E article \in ArticleDocuments, connection_ok \in BOOLEAN :
         LET title == article.title
             doc_dict == article.doc_dict
             documents == article.documents
         IN  \E failed \in {{}} \cup {{i} : i \in 1..Len(documents)} :
               /\ \A i \in 1..Len(documents) :
                     es_version(es, documents[i].id) < MaxVersion
               /\ IF documents = <<>>
                  THEN /\ UNCHANGED <<es, submitted>>
                       /\ last' = [last EXCEPT !.op = "rejected", !.title = title,
                                               !.filtered = Len(doc_dict),
                                               !.fault = "none"]
                  ELSE /\ submitted' = documents
                       /\ es' = IF connection_ok
                                THEN es_bulk(es, documents, failed, 1)
                                ELSE es
                       /\ last' = [last EXCEPT
                                     !.op = IF connection_ok /\ failed = {}
                                            THEN "indexed" ELSE "error",
                                     !.title = title,
                                     !.filtered = Len(doc_dict) - Len(documents),
                                     !.fault = IF connection_ok /\ failed = {}
                                               THEN "none" ELSE "sink"]
    /\ UNCHANGED <<run, pc, dump, pos, max_articles, similarity_threshold,
                   cache_writable, cache, disk, page_data, existing_titles, sink,
                   stats, save_cache_counter, calls, annotated, written, prev,
                   current_batch, batch_size, checker_config, evals, chunk_vars,
                   pool_vars, reader_vars, sched_vars>>

NextIndex == IndexArticle

SpecIndex == InitIndex /\ [][NextIndex]_vars

-----------------------------------------------------------------------------
(* SpecQuality: calls of is_quality_sentence in two processes, interleaved   *)
(* with update_config                                                        *)

\* "Ab 1234567 c d."
SentDigits ==
    <<"A", "b", " ", "1", "2", "3", "4", "5", "6", "7", " ", "c", " ", "d", ".">>

QualitySentences == Sentences \cup {SentDigits}

\* str.isalpha() / str.isspace() of one character
AlphaChars == UpperAZ \cup LowerAZ \cup UpperUmlaut \cup LowerUmlaut

\* quality_config['min_alpha_ratio'] of ElasticHelper, in tenths
MinAlphaRatioTenths == 7

\* alpha_ratio < min_alpha_ratio of the first ElasticHelper.is_quality_sentence
\* (a definition the class body replaces further down)
alpha_ratio_below_minimum(raw) ==
    LET sentence == strip(raw)
        n_alpha == Cardinality({ k \in 1..Len(sentence) :
                                   sentence[k] \in AlphaChars \cup SpaceChars })
    IN  /\ sentence # <<>>
        /\ 10 * n_alpha < MinAlphaRatioTenths * Len(sentence)

\* ElasticHelper.is_quality_sentence(sentence, lang): the definition in force,
\* which hands the sentence to the shared checker without the language
ElasticHelper_is_quality_sentence(sentence, lang, config) ==
    is_quality_sentence(sentence, "en", config)
Languages == {"en", "de"}

\* update_config(min_words=...) with the values of the model
MinWordsValues == {3, 5}
Configs == { [DefaultConfig EXCEPT !.min_words = n] : n \in MinWordsValues }

\* is_quality_sentence for every sentence, language and configuration of
\* the model (tabulated once)
QualityVerdicts ==
    { [sentence |-> sentence, lang |-> lang, config |-> config,
       result |-> is_quality_sentence(sentence, lang, config)] :
         sentence \in QualitySentences, lang \in Languages, config \in Configs }

\* get_quality_report(...)["passes"] for every sentence, language and
\* configuration of the model (tabulated once)
QualityReports ==
    { [sentence |-> sentence, lang |-> lang, config |-> config,
       passes |-> get_quality_report(sentence, lang, config).passes] :
         sentence \in QualitySentences, lang \in Languages, config \in Configs }

InitQuality ==
    /\ IndexIdle
    /\ pc = "quality"
    /\ last = NoLast
    /\ run = 1
    /\ dump = <<>>
    /\ pos = 0
    /\ max_articles = 1
    /\ similarity_threshold = 800
    /\ cache_writable = TRUE
    /\ cache = EmptyCache
    /\ disk = DiskAbsent
    /\ page_data = <<>>
    /\ existing_titles = {}
    /\ sink = {}
    /\ stats = ZeroStats
    /\ save_cache_counter = 0
    /\ calls = ZeroCalls
    /\ annotated = {}
    /\ written = {}
    /\ prev = NoPrev
    /\ current_batch = <<>>
    /\ batch_size = 1

quality_frame == <<run, pc, dump, pos, max_articles, similarity_threshold,
                   cache_writable, cache, disk, page_data, existing_titles, sink,
                   stats, save_cache_counter, calls, annotated, written, last, prev,
                   current_batch, batch_size, es, submitted, chunk_vars,
                   pool_vars, reader_vars, sched_vars>>

\* an evaluation whose answer depends on how many calls were made before
Evaluate_call_counting ==
    /\ pc = "quality"
    /\ Len(evals) < MaxEvals
    /\ \E p \in Processes, verdict \in QualityVerdicts :
          /\ verdict.config = checker_config[p]
          /\ evals' = Append(evals, [process |-> p, sentence |-> verdict.sentence,
                                     lang |-> verdict.lang, config |-> verdict.config,
                                     result |-> verdict.result /\ Len(evals) = 0])
    /\ UNCHANGED <<checker_config, quality_frame>>

\* one call is_quality_sentence(sentence, lang) in process p
Evaluate ==
    /\ pc = "quality"
    /\ Len(evals) < MaxEvals
    /\ \E p \in Processes, verdict \in QualityVerdicts :
          /\ verdict.config = checker_config[p]
          /\ evals' = Append(evals, [process |-> p, sentence |-> verdict.sentence,
                                     lang |-> verdict.lang, config |-> verdict.config,
                                     result |-> verdict.result])
    /\ UNCHANGED <<checker_config, quality_frame>>

\* update_config(min_words=n) on the checker of process p
UpdateConfig ==
    /\ pc = "quality"
    /\ \E p \in Processes, n \in MinWordsValues :
          checker_config' = [checker_config EXCEPT ![p].min_words = n]
    /\ UNCHANGED <<evals, quality_frame>>

NextQuality ==
    \/ Evaluate
    \/ UpdateConfig

SpecQuality == InitQuality /\ [][NextQuality]_vars

-----------------------------------------------------------------------------
(* SpecChunk: GermanBooksIndexer (index_german_books.py) annotating one book: *)
(* the chunker and the loop over its chunks.  A text is a sequence of        *)
(* characters, a chunk a text.                                               *)

ChunkChars == {"a", ".", " ", "\n"}
\* the class [.!?] of the pattern of line 360
SentenceTerminals == {".", "!", "?"}

\* "a. a. a" and "a\n\na\n\na": three sentences, three paragraphs
TextThreeSentences == <<"a", ".", " ", "a", ".", " ", "a">>
TextThreeParagraphs == <<"a", "\n", "\n", "a", "\n", "\n", "a">>

ChunkTexts ==
    UNION { [1..n -> ChunkChars] : n \in 0..MaxText }
        \cup {TextThreeSentences, TextThreeParagraphs}

SetMin(S) == CHOOSE x \in S : \A y \in S : x <= y

\* the last index of the maximal run of characters of the class that starts
\* at index i
run_end(s, i, class) ==
    CHOOSE j \in i..Len(s) :
        /\ \A m \in i..j : s[m] \in class
        /\ (j = Len(s) \/ s[j + 1] \notin class)

RECURSIVE split_paragraphs(_)
\* text.split('\n\n'): the pieces between the non-overlapping occurrences of
\* the separator, found from the left; empty pieces are kept
split_paragraphs(s) ==
    LET hits == {i \in 1..(Len(s) - 1) : s[i] = "\n" /\ s[i + 1] = "\n"}
    IN  IF hits = {}
        THEN <<s>>
        ELSE LET i == SetMin(hits)
             IN  <<SubSeq(s, 1, i - 1)>>
                     \o split_paragraphs(SubSeq(s, i + 2, Len(s)))

RECURSIVE split_sentences(_)
\* re.split(r'[.!?]+\s+', s): a match is a maximal run of terminals followed
\* by a maximal run of whitespace; the matched text is dropped
split_sentences(s) ==
    LET hits == {i \in 1..Len(s) :
                   /\ s[i] \in SentenceTerminals
                   /\ run_end(s, i, SentenceTerminals) < Len(s)
                   /\ s[run_end(s, i, SentenceTerminals) + 1] \in SpaceChars}
    IN  IF hits = {}
        THEN <<s>>
        ELSE LET i == SetMin(hits)
                 k == run_end(s, run_end(s, i, SentenceTerminals) + 1, SpaceChars)
             IN  <<SubSeq(s, 1, i - 1)>>
                     \o split_sentences(SubSeq(s, k + 1, Len(s)))

RECURSIVE pack_sentences(_, _, _, _, _)
\* the loop of lines 363-371 from sentence i on
pack_sentences(sentences, i, temp_chunk, chunks_so_far, size) ==
    IF i > Len(sentences)
    THEN [chunks |-> chunks_so_far, current_chunk |-> temp_chunk]
    ELSE LET sentence == sentences[i]
         IN  IF Len(temp_chunk) + Len(sentence) > size /\ temp_chunk # <<>>
             THEN pack_sentences(sentences, i + 1, sentence,
                                 Append(chunks_so_far, strip(temp_chunk)), size)
             ELSE pack_sentences(sentences, i + 1,
                                 IF temp_chunk # <<>>
                                 THEN temp_chunk \o <<".", " ">> \o sentence
                                 ELSE sentence,
                                 chunks_so_far, size)

RECURSIVE pack_paragraphs(_, _, _, _, _)
\* the loop of lines 345-373 from paragraph i on
pack_paragraphs(paragraphs, i, current_chunk, chunks_so_far, size) ==
    IF i > Len(paragraphs)
    THEN [chunks |-> chunks_so_far, current_chunk |-> current_chunk]
    ELSE LET paragraph == paragraphs[i]
             flush == Len(current_chunk) + Len(paragraph) > size
                      /\ current_chunk # <<>>
             chunks_1 == IF flush
                         THEN Append(chunks_so_far, strip(current_chunk))
                         ELSE chunks_so_far
             current_1 == IF flush THEN paragraph
                          ELSE IF current_chunk # <<>>
                          THEN current_chunk \o <<"\n", "\n">> \o paragraph
                          ELSE paragraph
             packed == pack_sentences(split_sentences(current_1), 1, <<>>,
                                      chunks_1, size)
         IN  IF Len(current_1) > size
             THEN pack_paragraphs(paragraphs, i + 1, packed.current_chunk,
                                  packed.chunks, size)
             ELSE pack_paragraphs(paragraphs, i + 1, current_1, chunks_1, size)

\* _split_into_smart_chunks
split_into_smart_chunks(s, size) ==
    IF Len(s) <= size
    THEN <<s>>
    ELSE LET packed == pack_paragraphs(split_paragraphs(s), 1, <<>>, <<>>, size)
         IN  IF strip(packed.current_chunk) # <<>>
             THEN Append(packed.chunks, strip(packed.current_chunk))
             ELSE packed.chunks

\* doc.to_dict() of self.nlp(chunk): the annotator's sentences of a chunk, in
\* the order of the chunk; the annotator is external, and the model takes
\* the non-blank pieces between sentence ends as its sentences
nlp(chunk) ==
    LET pieces == split_sentences(chunk)
    IN  SelectSeq([i \in 1..Len(pieces) |-> strip(pieces[i])],
                  LAMBDA piece : piece # <<>>)

\* lines 450-452 of index_book
after_annotation(doc_dict) ==
    IF doc_dict = <<>> THEN "no_sentences" ELSE "filtering"

chunk_frame == <<run, dump, pos, max_articles, similarity_threshold,
                 cache_writable, cache, disk, page_data, existing_titles, sink,
                 stats, save_cache_counter, calls, annotated, written, last, prev,
                 current_batch, batch_size, es, submitted, checker_config, evals,
                 pool_vars, reader_vars, sched_vars>>

InitChunk ==
    /\ text \in ChunkTexts
    /\ chunk_size \in 1..MaxChunkSize
    /\ chunks = <<>>
    /\ chunk_pos = 0
    /\ all_sentences = <<>>
    /\ nlp_log = <<>>
    /\ book_outcome = "none"
    /\ futures = <<>>
    /\ all_documents = 0
    /\ batch_counts = [rejected_count |-> 0, error_count |-> 0]
    /\ reader = "sequential"
    /\ items = <<>>
    /\ events = <<>>
    /\ ev_pos = 0
    /\ in_page = FALSE
    /\ page_title = "None"
    /\ page_text = "None"
    /\ emitted = <<>>
    /\ SchedIdle
    /\ es = {}
    /\ submitted = <<>>
    /\ checker_config = [p \in Processes |-> DefaultConfig]
    /\ evals = <<>>
    /\ pc = "book"
    /\ last = NoLast
    /\ run = 1
    /\ dump = <<>>
    /\ pos = 0
    /\ max_articles = 1
    /\ similarity_threshold = 800
    /\ cache_writable = TRUE
    /\ cache = EmptyCache
    /\ disk = DiskAbsent
    /\ page_data = <<>>
    /\ existing_titles = {}
    /\ sink = {}
    /\ stats = ZeroStats
    /\ save_cache_counter = 0
    /\ calls = ZeroCalls
    /\ annotated = {}
    /\ written = {}
    /\ prev = NoPrev
    /\ current_batch = <<>>
    /\ batch_size = 1

\* index_book, lines 442-444
EmptyText ==
    /\ pc = "book"
    /\ strip(text) = <<>>
    /\ pc' = "returned"
    /\ book_outcome' = "empty_text"
    /\ UNCHANGED <<text, chunk_size, chunks, chunk_pos, all_sentences, nlp_log>>
    /\ UNCHANGED chunk_frame

\* process_with_stanza_chunked on a text within chunk_size, lines 275-284,
\* with the handler of lines 317-323, and lines 450-452 of index_book
AnnotateWhole ==
    /\ pc = "book"
    /\ strip(text) # <<>>
    /\ Len(text) <= chunk_size
    /\ \E returned \in BOOLEAN :
          /\ nlp_log' = Append(nlp_log, [chunk |-> text, returned |-> returned])
          /\ all_sentences' = IF returned THEN nlp(text) ELSE <<>>
    /\ pc' = "returned"
    /\ book_outcome' = after_annotation(all_sentences')
    /\ UNCHANGED <<text, chunk_size, chunks, chunk_pos>>
    /\ UNCHANGED chunk_frame

\* line 294
SplitIntoChunks ==
    /\ pc = "book"
    /\ strip(text) # <<>>
    /\ Len(text) > chunk_size
    /\ chunks' = split_into_smart_chunks(text, chunk_size)
    /\ pc' = "chunks"
    /\ UNCHANGED <<text, chunk_size, chunk_pos, all_sentences, nlp_log,
                   book_outcome>>
    /\ UNCHANGED chunk_frame

\* a loop that gives up on the remaining chunks when one chunk fails
AnnotateChunk_breaking ==
    /\ pc = "chunks"
    /\ chunk_pos < Len(chunks)
    /\ LET chunk == chunks[chunk_pos + 1]
       IN  \E returned \in BOOLEAN :
             /\ nlp_log' = Append(nlp_log, [chunk |-> chunk, returned |-> returned])
             /\ all_sentences' = IF returned
                                 THEN all_sentences \o nlp(chunk)
                                 ELSE all_sentences
             /\ chunk_pos' = IF returned THEN chunk_pos + 1 ELSE Len(chunks)
    /\ UNCHANGED <<text, chunk_size, chunks, book_outcome, pc>>
    /\ UNCHANGED chunk_frame

\* one iteration of the loop of lines 296-309
AnnotateChunk ==
    /\ pc = "chunks"
    /\ chunk_pos < Len(chunks)
    /\ LET chunk == chunks[chunk_pos + 1]
       IN  \E returned \in BOOLEAN :
             /\ nlp_log' = Append(nlp_log, [chunk |-> chunk, returned |-> returned])
             /\ all_sentences' = IF returned
                                 THEN all_sentences \o nlp(chunk)
                                 ELSE all_sentences
    /\ chunk_pos' = chunk_pos + 1
    /\ UNCHANGED <<text, chunk_size, chunks, book_outcome, pc>>
    /\ UNCHANGED chunk_frame

\* lines 311-315, and lines 450-452 of index_book
ReturnChunked ==
    /\ pc = "chunks"
    /\ chunk_pos = Len(chunks)
    /\ pc' = "returned"
    /\ book_outcome' = after_annotation(all_sentences)
    /\ UNCHANGED <<text, chunk_size, chunks, chunk_pos, all_sentences, nlp_log>>
    /\ UNCHANGED chunk_frame

NextChunk ==
    \/ EmptyText
    \/ AnnotateWhole
    \/ SplitIntoChunks
    \/ AnnotateChunk
    \/ ReturnChunked

SpecChunk == InitChunk /\ [][NextChunk]_vars

-----------------------------------------------------------------------------
(* SpecSched: FeedScheduler on one asyncio event loop.  start() and stop()   *)
(* are called by coroutines of the loop at any time; a coroutine runs until  *)
(* its next await.  The event loop steps the tasks it was told to step (a    *)
(* new task, a task with a cancellation to deliver) in the order it was      *)
(* told; the completion of a fetch or of a sleep is the environment's.       *)

\* a fetch-loop task that can still run
LiveStates == {"pending", "fetch", "sleep"}

Live(i) == tasks[i].state \in LiveStates

\* Task.cancel(): nothing on a finished task; otherwise a CancelledError is
\* thrown into the coroutine at its next step, which the loop schedules
task_cancel(i) ==
    IF Live(i)
    THEN /\ tasks' = [tasks EXCEPT ![i].must_cancel = TRUE]
         /\ ready' = IF \E k \in DOMAIN ready : ready[k] = i
                      THEN ready ELSE Append(ready, i)
    ELSE UNCHANGED <<tasks, ready>>

\* the test of the while at line 47 and the body up to its first await: the
\* loop ends when running is false; get_elastic_helper() may raise, which is
\* logged, and the task goes to sleep
loop_top(helper_ok) ==
    IF ~running THEN "done"
    ELSE IF helper_ok THEN "fetch"
    ELSE "sleep"

sched_frame == <<run, pc, dump, pos, max_articles, similarity_threshold,
                 cache_writable, cache, disk, page_data, existing_titles, sink,
                 stats, save_cache_counter, calls, annotated, written, last, prev,
                 current_batch, batch_size, es, submitted, checker_config, evals,
                 chunk_vars, pool_vars, reader_vars>>

InitSched ==
    /\ IndexIdle
    /\ pc = "scheduler"
    /\ last = NoLast
    /\ run = 1
    /\ dump = <<>>
    /\ pos = 0
    /\ max_articles = 1
    /\ similarity_threshold = 800
    /\ cache_writable = TRUE
    /\ cache = EmptyCache
    /\ disk = DiskAbsent
    /\ page_data = <<>>
    /\ existing_titles = {}
    /\ sink = {}
    /\ stats = ZeroStats
    /\ save_cache_counter = 0
    /\ calls = ZeroCalls
    /\ annotated = {}
    /\ written = {}
    /\ prev = NoPrev
    /\ current_batch = <<>>
    /\ batch_size = 1

\* a start() without the test of self.running
start_unguarded ==
    /\ pc = "scheduler"
    /\ start_calls < MaxStarts
    /\ start_calls' = start_calls + 1
    /\ running' = TRUE
    /\ tasks' = Append(tasks, [state |-> "pending", must_cancel |-> FALSE])
    /\ task' = Len(tasks) + 1
    /\ ready' = Append(ready, Len(tasks) + 1)
    /\ stops' = [c \in Callers |-> [stops[c] EXCEPT !.restarted = TRUE]]
    /\ UNCHANGED sched_frame

\* FeedScheduler.start(): no await, so it runs in one piece
start ==
    /\ pc = "scheduler"
    /\ start_calls < MaxStarts
    /\ start_calls' = start_calls + 1
    /\ IF running
       THEN UNCHANGED <<running, task, tasks, ready, stops>>
       ELSE /\ running' = TRUE
            /\ tasks' = Append(tasks, [state |-> "pending", must_cancel |-> FALSE])
            /\ task' = Len(tasks) + 1
            /\ ready' = Append(ready, Len(tasks) + 1)
            /\ stops' = [c \in Callers |-> [stops[c] EXCEPT !.restarted = TRUE]]
    /\ UNCHANGED sched_frame

\* FeedScheduler.stop() called by c, up to its await: awaiting a finished
\* task, or no task, returns at once
stop ==
    /\ pc = "scheduler"
    /\ \E c \in Callers :
          /\ stops[c].pc \in {"idle", "returned"}
          /\ running' = FALSE
          /\ IF task = 0
             THEN /\ UNCHANGED <<tasks, ready>>
                  /\ stops' = [stops EXCEPT ![c] = [pc |-> "returned", awaiting |-> 0,
                                                    restarted |-> FALSE]]
             ELSE /\ task_cancel(task)
                  /\ stops' = [stops EXCEPT ![c] =
                                  [pc |-> IF Live(task) THEN "awaiting" ELSE "returned",
                                   awaiting |-> task, restarted |-> FALSE]]
    /\ UNCHANGED <<task, start_calls, sched_frame>>

\* the awaited task has finished: await self.task returns or raises
\* CancelledError, which is passed over, and stop() returns
StopReturns ==
    /\ pc = "scheduler"
    /\ \E c \in Callers :
          /\ stops[c].pc = "awaiting"
          /\ ~Live(stops[c].awaiting)
          /\ stops' = [stops EXCEPT ![c].pc = "returned"]
    /\ UNCHANGED <<running, task, tasks, ready, start_calls, sched_frame>>

\* the event loop steps the first task it was told to step.  A cancellation
\* ends a task that has not started, leaves the fetch as a CancelledError
\* that `except Exception` does not catch, and is caught around the sleep,
\* where the loop breaks; a new task without a cancellation starts its loop
TaskStep ==
    /\ pc = "scheduler"
    /\ ready # <<>>
    /\ ready' = Tail(ready)
    /\ LET i == Head(ready)
       IN  \E helper_ok \in BOOLEAN :
             tasks' = [tasks EXCEPT ![i].state =
                         IF tasks[i].must_cancel
                         THEN (IF tasks[i].state = "sleep" THEN "done" ELSE "cancelled")
                         ELSE loop_top(helper_ok)]
    /\ UNCHANGED <<running, task, stops, start_calls, sched_frame>>

\* helper.fetch_all_rss_feeds() returns or raises an Exception: lines 55-63
FetchReturns ==
    /\ pc = "scheduler"
    /\ \E i \in DOMAIN tasks :
          /\ tasks[i].state = "fetch"
          /\ ~tasks[i].must_cancel
          /\ tasks' = [tasks EXCEPT ![i].state = "sleep"]
    /\ UNCHANGED <<running, task, ready, stops, start_calls, sched_frame>>

\* asyncio.sleep returns and the loop tests self.running again: lines 67, 47
SleepElapses ==
    /\ pc = "scheduler"
    /\ \E i \in DOMAIN tasks, helper_ok \in BOOLEAN :
          /\ tasks[i].state = "sleep"
          /\ ~tasks[i].must_cancel
          /\ tasks' = [tasks EXCEPT ![i].state = loop_top(helper_ok)]
    /\ UNCHANGED <<running, task, ready, stops, start_calls, sched_frame>>

NextSched ==
    \/ start
    \/ stop
    \/ StopReturns
    \/ TaskStep
    \/ FetchReturns
    \/ SleepElapses

SpecSched == InitSched /\ [][NextSched]_vars

-----------------------------------------------------------------------------
(* Properties of WikiCorpusProcessor, checked under Spec *)

InSomeCategory(title, c) == \E k \in Categories : title \in c[k]

\* C1: the four outcome sets of the cache are pairwise disjoint in every
\* reachable state, in memory and in every complete blob on disk
C1_CacheSetsDisjoint ==
    /\ \A a, b \in Categories : a # b => cache[a] \cap cache[b] = {}
    /\ \A a, b \in Categories : a # b => disk.blob[a] \cap disk.blob[b] = {}

\* a second run that loaded a non-empty cache and recorded further outcomes
C1_Witness ==
    /\ last.load = "valid"
    /\ last.loaded # {}
    /\ Cardinality({k \in Categories : cache[k] # {}}) >= 2
    /\ stats.articles_processed > 0

\* C2: a pulled record whose title is in one of the four sets causes no dedup
\* pass, no annotator call and no bulk write, leaves the cache, the in-flight
\* titles and the sink unchanged, and counts as one cache hit and one skip
C2_CacheHitSkips ==
    [][ (pc = "pull" /\ pos' = pos + 1 /\ InSomeCategory(dump[pos + 1], cache))
        => /\ calls' = calls
           /\ annotated' = annotated
           /\ written' = written
           /\ cache' = cache
           /\ page_data' = page_data
           /\ sink' = sink
           /\ stats' = [stats EXCEPT !.cache_hits = @ + 1,
                                     !.articles_skipped = @ + 1] ]_vars

\* a record skipped because its title had been recorded as errored
C2_Witness ==
    /\ last.op = "cache_hit"
    /\ last.title \in cache["errors"]
    /\ stats.cache_hits > 0

\* C3: after a run that returned and whose final save was written, the next
\* run on the same dump annotates and writes none of the titles the earlier
\* run had in its indexed set
C3_IdempotentResume ==
    (run > 1 /\ prev.ended = "done" /\ prev.final_save = "ok")
    => /\ prev.indexed \cap annotated = {}
       /\ prev.indexed \cap written = {}

\* a second run that went through the whole dump without the sink's title
\* export, skipping what the first run indexed
C3_Witness ==
    /\ run = 2
    /\ prev.ended = "done"
    /\ prev.final_save = "ok"
    /\ prev.indexed # {}
    /\ existing_titles = {}
    /\ pc = "done"
    /\ last.end = "exhausted"
    /\ stats.cache_hits > 0

\* C4 as stated: killed after some but not all of the target was indexed and
\* restarted, the second run, when it stops at the target, has brought the
\* total of both runs to the target and has annotated none of the titles the
\* first run indexed (here even with a writable cache location and a title
\* export that returned the first run's titles)
C4_KillRestart ==
    (/\ run = 2
     /\ prev.ended = "killed"
     /\ prev.n_indexed >= 1
     /\ prev.n_indexed < max_articles
     /\ cache_writable
     /\ prev.indexed \subseteq existing_titles
     /\ pc = "done"
     /\ last.end = "target")
    => /\ prev.n_indexed + stats.articles_indexed = max_articles
       /\ prev.indexed \cap annotated = {}

\* C4 amended: the restarted run counts from zero, so it stops when it has
\* indexed the target itself; a title the killed run indexed is annotated
\* again only if it is neither in the loaded cache nor in the snapshot of the
\* sink's titles
C4_KillRestartAmended ==
    (run > 1 /\ prev.ended = "killed" /\ pc = "done")
    => /\ last.end = "target" => stats.articles_indexed = max_articles
       /\ prev.indexed \cap annotated \cap (last.loaded \cup existing_titles) = {}

\* killed after one of two, the restarted run indexes two more
C4_Witness ==
    /\ run = 2
    /\ prev.ended = "killed"
    /\ prev.n_indexed = 1
    /\ max_articles = 2
    /\ pc = "done"
    /\ last.end = "target"
    /\ prev.indexed \cap existing_titles # {}

\* C6: a kill during a save leaves the complete old or the complete new blob
C6_AtomicCheckpoint ==
    (pc = "killed" /\ last.end \in {"saving", "finishing"})
    => disk.kind # "corrupt"

\* C7 as stated: when process_dump has returned, the cache file holds the
\* in-memory cache
C7_ShutdownCheckpoint ==
    pc = "done" => disk = DiskValid(cache)

\* C7 amended: every return of process_dump, by target, exhaustion or read
\* error, comes after a final save attempt; if that save was written the file
\* holds the in-memory cache, and if the write failed the file is truncated
C7_FinalSaveAttempt ==
    pc = "done"
    => /\ last.end \in {"target", "exhausted", "read_error"}
       /\ last.final_save \in {"ok", "failed"}
       /\ last.final_save = "ok" => disk = DiskValid(cache)
       /\ (last.final_save = "failed" /\ cache_writable) => disk = DiskCorrupt

\* a run ended by a read error after recording an outcome, final save written
C7_Witness ==
    /\ pc = "done"
    /\ last.end = "read_error"
    /\ last.final_save = "ok"
    /\ cache # EmptyCache

\* C8: when the cache file is absent or cannot be unpickled, the load leaves
\* four empty sets and process_dump goes on to the reader loop
C8_LoadNeverAborts ==
    [][ (pc = "start" /\ pc' # "start" /\ disk.kind \in {"absent", "corrupt"})
        => (cache' = EmptyCache /\ pc' = "pull") ]_vars

\* a run that started from a truncated cache file and indexed an article
C8_Witness ==
    /\ last.load = "corrupt"
    /\ last.op = "indexed"
    /\ cache["indexed"] # {}

-----------------------------------------------------------------------------
(* Properties of SimpleWikiCorpusProcessor, checked under SpecSimple *)

\* C5: when a run ends with the target reached, the indexed count is at
\* least the target and less than the target plus one batch of titles
C5_TargetBound ==
    (pc = "done" /\ stats.articles_indexed >= max_articles)
    => stats.articles_indexed < max_articles + batch_size

-----------------------------------------------------------------------------
(* Properties of add_title_to_cache, checked under SpecCache *)

\* C9: recording a title that is already in one of the four sets, under any
\* outcome, leaves the four sets unchanged
C9_RecordIdempotent ==
    [][ (last'.op = "record" /\ InSomeCategory(last'.title, cache))
        => cache' = cache ]_vars

-----------------------------------------------------------------------------
(* Properties of the similarity passes, checked under SpecDedup *)

InFlightTitles == {page_data[i] : i \in DOMAIN page_data}

\* the ratio of the candidate and t, in percent, is at least the integer
\* int(similarity_threshold * 100)
C10_Reaches(t) ==
    200 * LCS(dump[1], t)
        >= (similarity_threshold \div 10) * (Len(dump[1]) + Len(t))

\* the ratio of the candidate and t, as a fraction, exceeds similarity_threshold
C10_Exceeds(t) ==
    2000 * LCS(dump[1], t) > similarity_threshold * (Len(dump[1]) + Len(t))

-----------------------------------------------------------------------------
(* Threshold monotonicity *)

\* C11 as stated: the titles not flagged duplicate by the run at the higher
\* threshold include the titles not flagged duplicate by the run at the
\* lower threshold (checked under SpecMono)
C11_RunMonotone ==
    (run = 2 /\ pc = "done") => prev.annotated \subseteq annotated

\* C11 amended: for one candidate, one in-flight set and one sink snapshot, a
\* title not flagged at a threshold is not flagged at any higher threshold:
\* every record a run accepts would be accepted against the same in-flight
\* titles and sink snapshot at each higher threshold (checked under SpecMono)
C11_DecisionMonotone ==
    [][ (pc = "pull" /\ pos' = pos + 1 /\ last'.op = "accepted")
        => \A stricter \in DedupThresholds :
              stricter > similarity_threshold
              => ~dedup_decision(dump[pos'], page_data, existing_titles,
                                 stricter).similar ]_vars

\* a title accepted at 0.8 against non-empty in-flight and sink titles
C11_Witness ==
    /\ pc = "pull"
    /\ last.op = "accepted"
    /\ similarity_threshold = 800
    /\ Len(page_data) > 1
    /\ existing_titles # {}

-----------------------------------------------------------------------------
(* The scenario "Berlin", "berlin", "Munich", checked under Spec.  In the   *)
(* first run the cache starts empty and the sink snapshot is empty.         *)

BerlinScenario ==
    /\ run = 1
    /\ dump = <<TitleBerlin, TitleBerlinLower, TitleMunich>>

ProcessedOps == {"indexed", "rejected", "error"}

\* C12 as stated: at threshold 0.9 "berlin" is flagged Similar against
\* "Berlin" and "Munich" proceeds to annotation
C12_BerlinScenario ==
    (BerlinScenario /\ similarity_threshold = 900)
    => /\ pos = 2 => (last.op = "similar_local" /\ last.title = TitleBerlin)
       /\ pos = 3 => TitleMunich \in annotated

\* C12 amended: fuzz.ratio("berlin", "Berlin") is 83.3; at threshold 0.9
\* "berlin" is not flagged and proceeds to annotation, at threshold 0.8 it is
\* flagged Similar against "Berlin"; "Munich" proceeds to annotation at both
\* (a record whose markup normalisation raised ends the run and is not pulled)
C12_BerlinScenarioCaseSensitive ==
    (BerlinScenario /\ last.op # "parse")
    => /\ (pos = 2 /\ similarity_threshold = 900)
            => /\ last.op \in ProcessedOps
               /\ last.title = TitleBerlinLower
               /\ TitleBerlinLower \in annotated
       /\ (pos = 2 /\ similarity_threshold = 800)
            => /\ last.op = "similar_local"
               /\ last.title = TitleBerlin
               /\ TitleBerlinLower \notin annotated
               /\ TitleBerlinLower \in cache["similar"]
       /\ pos = 3 => (last.op \in ProcessedOps /\ TitleMunich \in annotated)

\* the three records were pulled at threshold 0.9 and all three were annotated
C12_Witness ==
    /\ BerlinScenario
    /\ similarity_threshold = 900
    /\ pos = 3
    /\ annotated = {TitleBerlin, TitleBerlinLower, TitleMunich}

-----------------------------------------------------------------------------
(* Item failures of a bulk commit *)

\* C13: when a step of process_dump stores the first sentence documents of a
\* title in the sink, the title is recorded in the indexed set and counted as
\* indexed, whether or not the sink failed other documents of that title
\* (checked under Spec)
C13_PartialFailureIndexed ==
    [][ (pc = "pull" /\ pos' = pos + 1
         /\ dump[pos'] \notin sink /\ dump[pos'] \in sink')
        => /\ dump[pos'] \in cache'["indexed"]
           /\ stats'.articles_indexed = stats.articles_indexed + 1 ]_vars

\* C14: a commit to a reachable sink returns a success count and a failure
\* count that add up to the documents submitted, the failure count being the
\* number of items the sink failed (checked under SpecSimple)
C14_CommitCounts ==
    (last.op = "batch" /\ last.commit.connected)
    => /\ last.commit.success_count + last.commit.error_count = last.commit.submitted
       /\ last.commit.error_count = last.commit.failed

-----------------------------------------------------------------------------
(* Failures inside the per-title pipeline, checked under Spec *)

\* C15: a title whose normalization or annotation raised is recorded in the
\* errors set and the run goes on with the next record
C15_WorkerFailureErrored ==
    last.fault \in {"normalization", "annotator"}
    => /\ last.title \in cache["errors"]
       /\ last.end # "read_error"

-----------------------------------------------------------------------------
(* Properties of index_article on sentences, checked under SpecIndex *)

\* the sentence texts of the model for which is_quality_sentence is true
C16_QualityTexts ==
    {sentence_text \in {join_tokens(sentence) : sentence \in IndexSentences} :
        is_quality_sentence(sentence_text, "en", DefaultConfig)}

\* C16: every sentence document submitted to the sink, and every document the
\* sink holds, has a text for which is_quality_sentence returns true; the
\* rejected sentence "Siehe auch Berlin ." is in no bulk write
C16_QualityGate ==
    \A d \in {submitted[i] : i \in DOMAIN submitted} \cup es :
        /\ d.sentence_text \in C16_QualityTexts
        /\ d.sentence_text # join_tokens(TokensSeeAlso)

\* a bulk write was issued for an article of which a sentence was filtered out
C16_Witness ==
    /\ last.op = "indexed"
    /\ last.filtered > 0
    /\ submitted # <<>>
    /\ es # {}

\* C17: the id of a document is f"{title}_{index:04d}" for its title and a
\* sentence index, distinct (title, index) pairs have distinct ids, and the
\* sink holds exactly one document per id however often it was written
C17_OneDocumentPerId ==
    /\ \A d \in es :
          /\ \E sent_idx \in 0..(MaxSentences - 1) :
                d.id = sentence_id(d.title, sent_idx)
          /\ Cardinality({other \in es : other.id = d.id}) = 1
    /\ \A t1, t2 \in Titles : \A i1, i2 \in 0..(MaxSentences - 1) :
          sentence_id(t1, i1) = sentence_id(t2, i2) => (t1 = t2 /\ i1 = i2)

\* the same (title, index, text) was written twice
C17_Witness ==
    \E d \in es :
        /\ d.version >= 2
        /\ \E i \in DOMAIN submitted :
              submitted[i].id = d.id /\ submitted[i].sentence_text = d.sentence_text

-----------------------------------------------------------------------------
(* Properties of is_quality_sentence, checked under SpecQuality *)

-----------------------------------------------------------------------------
(* The result of a run, checked under Spec *)

\* C19: the exit status is 1 if and only if a startup step failed or the run
\* indexed no title, and 0 otherwise, whatever the numbers of rejected,
\* similar, cache-hit and errored titles
C19_RunResult ==
    pc = "exited"
    => /\ last.exit_status \in {0, 1}
       /\ last.exit_status = 1
            <=> (last.startup # "ok" \/ stats.articles_indexed = 0)

\* a run that ended with errors, rejected and skipped titles and one indexed
\* title exits with status 0
C19_Witness ==
    /\ pc = "exited"
    /\ last.exit_status = 0
    /\ stats.articles_indexed = 1
    /\ stats.errors > 0
    /\ stats.articles_skipped > 0

\* C20: when the dump file is missing, the sink is unreachable or the cache
\* location is unwritable, the run pulls no record, calls neither the
\* annotator nor the sink and leaves the cache as it was
C20_FatalStartupAborts ==
    (~cache_writable \/ last.startup \in {"no_dump", "no_sink"})
    => /\ pos = 0
       /\ calls = ZeroCalls
       /\ written = {}
       /\ cache = EmptyCache

-----------------------------------------------------------------------------
(* Properties of GermanBooksIndexer's chunked annotation, checked under      *)
(* SpecChunk                                                                 *)

\* C21: for a text longer than chunk_size, no chunk the chunker returned is
\* longer than chunk_size characters
C21_ChunkBudget ==
    (pc = "chunks" /\ Len(text) > chunk_size)
    => \A i \in DOMAIN chunks : Len(chunks[i]) <= chunk_size

\* C22, at the scale of the model: a text three times as long as chunk_size
\* (120,000 characters for 40,000) is split into 3 or 4 chunks
C22_ThreeOrFourChunks ==
    (pc = "chunks" /\ Len(text) = 3 * chunk_size)
    => Len(chunks) \in {3, 4}

RECURSIVE C23_SuccessfulSentences(_)
\* the sentences of the chunks from index i on whose annotation returned
C23_SuccessfulSentences(i) ==
    IF i > Len(nlp_log)
    THEN <<>>
    ELSE (IF nlp_log[i].returned THEN nlp(nlp_log[i].chunk) ELSE <<>>)
             \o C23_SuccessfulSentences(i + 1)

-----------------------------------------------------------------------------
(* Commits and workers, checked under SpecPool *)

\* C24: while a bulk commit is in progress and records are left to read, a
\* worker can complete a title or the reader can hand over the next record
C24_CommitDoesNotBlockWorkers ==
    (pc = "commit" /\ pos < Len(dump) /\ last.end = "none")
    => ENABLED (PoolPullRecord \/ TaskCompletes)

-----------------------------------------------------------------------------
(* The reader loop, checked under SpecReader *)

\* the number of events of the given kind among the events handled so far
C25_Handled(event, tag) ==
    Cardinality({i \in 1..ev_pos : events[i].event = event /\ events[i].tag = tag})

\* the position is between a page's start event and its end event
C25_InsidePage == C25_Handled("start", "page") > C25_Handled("end", "page")

RECURSIVE C25_Captured(_, _, _)
\* the field a page's children leave behind: the text of the last title
\* element, the stripped text of the last non-empty text element
C25_Captured(children, tag, value) ==
    IF children = <<>> THEN value
    ELSE LET child == Head(children)
             next == IF child.tag # tag THEN value
                     ELSE IF tag = "title" THEN child.text
                     ELSE IF truthy(child.text) THEN strip_code(child.text)
                     ELSE value
         IN  C25_Captured(Tail(children), tag, next)

RECURSIVE C25_Records(_, _)
\* one record per page among the first n pages of the element sequence whose
\* two captured fields are non-empty
C25_Records(elements, n) ==
    IF elements = <<>> \/ n = 0 THEN <<>>
    ELSE LET elem == Head(elements)
             title == C25_Captured(elem.children, "title", None)
             body == C25_Captured(elem.children, "text", None)
         IN  IF elem.tag # "page" THEN C25_Records(Tail(elements), n)
             ELSE (IF truthy(title) /\ truthy(body)
                   THEN <<[title |-> title, text |-> body]>> ELSE <<>>)
                      \o C25_Records(Tail(elements), n - 1)

\* the records of the pages whose end event has been handled
C25_Emitted == emitted = C25_Records(items, C25_Handled("end", "page"))

\* C25: after every event the reader is InPage exactly if the event lies
\* between a page's start event and its end event; an end event of a title or
\* text element outside a page changes no captured field; the records emitted
\* are those of the finished pages with two non-empty fields, in order; and a
\* page without title or body changes no error counter
C25_ReaderStateMachine ==
    [][ /\ in_page' <=> C25_InsidePage'
        /\ (~C25_InsidePage /\ ev_pos' > ev_pos /\ events[ev_pos'].event = "end")
             => (page_title' = page_title /\ page_text' = page_text)
        /\ C25_Emitted'
        /\ stats'.errors # stats.errors => events[ev_pos'].text = "broken" ]_vars

-----------------------------------------------------------------------------
(* The states of a title, checked under Spec *)

C26_Outcomes ==
    {"cache_hit", "similar_local", "similar_existing", "indexed", "rejected",
     "error"}

\* the cache sets that hold the title
C26_SetsHolding(c, title) == {k \in Categories : title \in c[k]}

\* C26: every record the reader loop pulls ends, within the step that pulled
\* it, as a cache hit, as a duplicate recorded in the similar set, or as
\* indexed, rejected or errored; the annotator is called for it only if the
\* cache lookup missed and neither similarity pass matched; and a title the
\* annotator was called for is, after the step, in exactly one cache set,
\* which is indexed, rejected or errors
C26_PerTitleStateMachine ==
    [][ (pc = "pull" /\ pos' = pos + 1)
        => LET title == dump[pos']
               entered == calls'.annot = calls.annot + 1
           IN  /\ last'.op \in C26_Outcomes
               /\ last'.op = "cache_hit"
                    => (~entered /\ cache' = cache
                        /\ is_title_already_processed(title, cache).is_processed)
               /\ last'.op \in {"similar_local", "similar_existing"}
                    => (~entered /\ C26_SetsHolding(cache', title) = {"similar"})
               /\ last'.op \in {"indexed", "rejected", "error"} => entered
               /\ entered
                    => /\ C26_SetsHolding(cache, title) = {}
                       /\ ~dedup_decision(title, page_data, existing_titles,
                                          similarity_threshold).similar
                       /\ C26_SetsHolding(cache', title)
                            = {IF last'.op = "error" THEN "errors" ELSE last'.op}
                       /\ calls'.annot = calls.annot + 1 ]_vars

\* a second run that met a cache hit and a duplicate has just recorded a
\* title whose work failed in the errors set
C26_Witness ==
    /\ run = 2
    /\ last.op = "error"
    /\ last.title \in cache["errors"]
    /\ stats.cache_hits > 0
    /\ stats.articles_skipped > stats.cache_hits

\* C27: a title is recorded indexed only if the step stored a sentence
\* document of it in the sink, rejected only if the annotator returned and
\* no sentence passed the quality filter, and errored only if the work on
\* the title raised
C27_OutcomeAssignment ==
    [][ (pc = "pull" /\ pos' = pos + 1)
        => LET title == dump[pos']
           IN  /\ (title \in cache'["indexed"] /\ title \notin cache["indexed"])
                    => (title \in sink' /\ title \in written')
               /\ (title \in cache'["rejected"] /\ title \notin cache["rejected"])
                    => (last'.fault = "none" /\ title \notin written')
               /\ (title \in cache'["errors"] /\ title \notin cache["errors"])
                    => last'.fault # "none" ]_vars

-----------------------------------------------------------------------------
(* Checkpoints, counters and record bodies, checked under Spec *)

\* the titles a cache holds in any of its sets
C28_Recorded(c) == UNION {c[k] : k \in Categories}

\* the titles recorded in memory that the cache file does not hold
C28_SinceCheckpoint ==
    C28_Recorded(cache)
        \ (IF disk.kind = "valid" THEN C28_Recorded(disk.blob) ELSE {})

\* C28: where the cache file can be written, between two records fewer than
\* SaveEvery outcomes (indexed, rejected, similar, errors) are recorded in
\* memory and not yet in the cache file
C28_CheckpointEveryN ==
    (cache_writable /\ pc = "pull")
    => Cardinality(C28_SinceCheckpoint) < SaveEvery

\* C29: in SimpleWikiCorpusProcessor the processed counter is the number of
\* titles handed to the workers, and the indexed counter counts titles: it
\* never exceeds the processed counter, and a batch whose commit stored no
\* document leaves it unchanged (checked under SpecSimple)
C29_CounterSemantics ==
    [][ /\ stats'.articles_processed = pos'
        /\ stats'.articles_indexed <= stats'.articles_processed
        /\ (last'.op = "batch" /\ last'.commit.success_count = 0)
             => stats'.articles_indexed = stats.articles_indexed ]_vars

\* C30: between two records WikiCorpusProcessor holds the body of at most
\* one record, the size of its open batch, however many records it has
\* pulled; page_data maps each title it holds to that title's body (checked
\* under Spec)
C30_NoRetention ==
    pc = "pull" => Len(page_data) <= 1

-----------------------------------------------------------------------------
(* The alphabetic-ratio rule, checked under SpecQuality *)

\* C31: a sentence whose share of alphabetic and whitespace characters is
\* below the configured minimum is rejected by the checker of the pipeline
\* and by the search helper's predicate
C31_AlphaRatioRejects ==
    \A i \in DOMAIN evals :
        alpha_ratio_below_minimum(evals[i].sentence)
        => /\ ~evals[i].result
           /\ ~ElasticHelper_is_quality_sentence(evals[i].sentence, evals[i].lang,
                                                  evals[i].config)

-----------------------------------------------------------------------------
(* The titles accepted in a run, checked under Spec *)

\* the pairs of titles whose ratio reaches int(threshold * 100), for every
\* threshold of the model (tabulated once)
C32_Reaching ==
    UNION { IF RatioAtLeast(triple[1], triple[2], threshold_score(triple[3]))
            THEN {triple} ELSE {} : triple \in Titles \X Titles \X Thresholds }

\* C32: at every point of a run, two titles of the in-flight set page_data
\* have a ratio below the threshold, and every title of the in-flight set
\* has a ratio below the threshold to every title of the sink snapshot taken
\* at the start of the run
C32_PairwiseDissimilar ==
    /\ \A i, j \in DOMAIN page_data :
          i # j => <<page_data[i], page_data[j], similarity_threshold>>
                      \notin C32_Reaching
    /\ \A i \in DOMAIN page_data :
          \A existing_title \in existing_titles :
              <<page_data[i], existing_title, similarity_threshold>>
                  \notin C32_Reaching

\* a run with a non-empty sink snapshot has accepted two titles
C32_Witness ==
    /\ pc = "pull"
    /\ Len(page_data) = 2
    /\ existing_titles # {}

-----------------------------------------------------------------------------
(* The cache and the sink, checked under SpecFlags *)

\* C33: whenever a run pulls records, every title of the cache's indexed set
\* has a sentence document in the destination index, also in a run started
\* with --force-recreate and without --clear-cache
C33_CacheSinkConsistent ==
    pc = "pull" => cache["indexed"] \subseteq sink

-----------------------------------------------------------------------------
(* The counters of a run, checked under Spec *)

\* the titles this run recorded as similar: the similar set without the
\* titles loaded from the cache file
C34_SimilarThisRun == cache["similar"] \ last.loaded

\* C34: between two pulls of a run that met no fatal error, the records
\* pulled so far are the skipped plus the processed ones, the skipped ones
\* are the cache hits plus the titles recorded similar in this run, and the
\* processed ones are the indexed, the rejected and the errored ones
C34_CounterConservation ==
    pc = "pull" =>
        /\ pos = stats.articles_skipped + stats.articles_processed
        /\ stats.articles_skipped
             = stats.cache_hits + Cardinality(C34_SimilarThisRun)
        /\ stats.articles_processed
             = stats.articles_indexed + stats.articles_rejected + stats.errors

\* a run has met a cache hit, a similar title and a title whose commit failed
C34_Witness ==
    /\ pc = "pull"
    /\ pos = 3
    /\ stats.cache_hits = 1
    /\ Cardinality(C34_SimilarThisRun) = 1
    /\ stats.errors = 1

-----------------------------------------------------------------------------
(* The open batch of the batched orchestrator, checked under SpecSimple *)

\* C35: when process_dump of the batched orchestrator has ended because the
\* target was reached or the source was exhausted, every record appended to
\* the open batch has been passed to process_articles_batch
C35_NoRecordLost ==
    (pc = "done" /\ last.end \in {"target", "exhausted"})
        => calls.annot = stats.articles_processed

\* the source was exhausted with one record in the open batch of size two,
\* and the record went through process_articles_batch
C35_Witness ==
    /\ pc = "done"
    /\ last.end = "exhausted"
    /\ batch_size = 2
    /\ pos = 3
    /\ stats.articles_processed = 3
    /\ calls.annot = 3

-----------------------------------------------------------------------------
(* Termination of process_dump, checked under SpecTerm *)

-----------------------------------------------------------------------------
(* The quality report, checked under SpecQuality *)

\* C37: for every sentence, language and configuration evaluated,
\* get_quality_report(sentence, lang)["passes"] is the boolean that
\* is_quality_sentence(sentence, lang) returned
C37_ReportAgrees ==
    \A i \in DOMAIN evals :
        \A report \in QualityReports :
            (/\ report.sentence = evals[i].sentence
             /\ report.lang = evals[i].lang
             /\ report.config = evals[i].config)
            => report.passes = evals[i].result

\* a sentence that only the language check fails and a sentence that passes
\* have been evaluated
C37_Witness ==
    /\ Len(evals) = 2
    /\ evals[1].sentence = SentFewNouns
    /\ evals[1].lang = "de"
    /\ ~evals[1].result
    /\ evals[2].sentence = SentFewNouns
    /\ evals[2].lang = "en"
    /\ evals[2].result

-----------------------------------------------------------------------------
(* FeedScheduler, checked under SpecSched *)

\* the fetch-loop tasks that can still run and have no cancellation requested
C38_NonCancelled ==
    { i \in DOMAIN tasks : Live(i) /\ ~tasks[i].must_cancel }

\* C38: after any interleaving of start() and stop() at most one fetch-loop
\* task without a requested cancellation exists; a start() while running
\* creates no task; and once a stop() has returned, no fetch-loop task can
\* still run and running is false, until start() is called again
C38_SingleLoop ==
    /\ [](Cardinality(C38_NonCancelled) <= 1)
    /\ [][(running /\ start_calls' = start_calls + 1)
            => (tasks' = tasks /\ task' = task)]_vars
    /\ [](\A c \in Callers :
            (stops[c].pc = "returned" /\ ~stops[c].restarted)
                => (~running /\ \A i \in DOMAIN tasks : ~Live(i)))

\* start() was called while running, a stop() overlapped with the next
\* start(), and a later stop() has returned with both tasks finished
C38_Witness ==
    /\ start_calls = 3
    /\ Len(tasks) = 2
    /\ stops["lifespan"].pc = "returned"
    /\ stops["lifespan"].restarted
    /\ stops["lifespan"].awaiting = 1
    /\ stops["handler"].pc = "returned"
    /\ ~stops["handler"].restarted
    /\ stops["handler"].awaiting = 2

=============================================================================
